---------------------------- MODULE Spec2Model ----------------------------
(***************************************************************************)
(* A model of node-agwpe: the outbound Throttle (port and connection),    *)
(* the FrameAssembler, the Receiver and the Server's event fan-out.        *)
(*                                                                         *)
(* Stream semantics are those of current Node.js releases:                 *)
(*   - a Transform's _transform is called for one chunk at a time, in      *)
(*     write order, and _flush after the last write completed;             *)
(*   - 'finish' follows the _flush callback; a stream that has finished    *)
(*     and ended destroys itself and emits 'close';                        *)
(*   - push() on a destroyed stream is dropped;                            *)
(*   - Readable.pipe() ends its destination when the source emits 'end',   *)
(*     not when the source is destroyed.                                   *)
(* Each handler of the source is one action; the steps Node defers to a   *)
(* later tick are separate actions.                                        *)
(***************************************************************************)
EXTENDS Integers, Sequences, FiniteSets, TLC

(***************************************************************************)
(* Bounds of the model.                                                    *)
(***************************************************************************)
MaxWrites == 9          \* frames written to a throttle (flow control)
MaxDrainWrites == 4     \* frames written before a disconnect
MaxOther == 1           \* frames other than 'D' among those written to a port throttle
MaxQueue == 2           \* frames written and waiting for _transform
MaxReplies == 2         \* in-flight replies outstanding when the poll timer fires
MaxInbound == 2         \* frames received from the TNC by one connection
MaxConnWrites == 2      \* frames written while the TNC sends frames
MaxFrameLength == 3     \* largest options.frameLength of a FrameAssembler
MaxChunkLength == 7     \* longest chunk written to a FrameAssembler
MaxChunks == 4          \* chunks written to a FrameAssembler
MaxFrames == 2          \* frames the TNC sends to the Receiver
MaxPort == 1            \* the TNC's ports are 0..MaxPort
MaxPackets == 4         \* 'K' frames that reach a RawSocket
RecvBufferSize == 2     \* options.recvBufferSize of the RawSocket
MaxRouted == 3          \* frames that the routers route
MaxListens == 2         \* calls of Server.listen that open a socket

(***************************************************************************)
(* Program constants.                                                      *)
(***************************************************************************)
MaxFramesInFlight == 8
HeaderLength == 36

\* A large uint32 reply value (the largest integer TLC represents).
LargeCount == 2147483646 + 1

VARIABLES
    \* ---- Throttle (server.js: Throttle, PortThrottle, ConnectionThrottle)
    cls,            \* "port" or "conn": which subclass this throttle is
    ID,             \* options.ID is configured
    tnc,            \* "honest": replies carry the TNC's count; "any": any uint32
    wq,             \* frames written to the stream, not yet given to _transform
    written,        \* every frame written so far, in order
    writing,        \* a _transform callback is outstanding
    ending,         \* end() has been called
    flushed,        \* _flush has been called
    finished,       \* the _flush callback has run
    destroyed,      \* the throttle is destroyed and has emitted 'close'
    buffer,         \* this.buffer: frames and functions
    inFlight,       \* this.inFlight
    maxInFlight,    \* this.maxInFlight
    polling,        \* this.polling is armed
    timers,         \* number of interval timers set and not cleared
    callbacks,      \* the frames whose _transform callback has been called,
                    \* by their number, in the order of the calls
    disconnected,   \* this._disconnected
    out,            \* the non-query frames pushed downstream, in order
    sinceReply,     \* data-bearing frames pushed since the last in-flight reply
    replies,        \* in-flight replies on their way from the TNC
    tncCount,       \* 'D' frames the TNC holds and has not transmitted yet
    dSentWith,      \* tncCount when 'd' was pushed, or -1
    overrun,        \* a data-bearing frame was pushed with inFlight >= maxInFlight
    \* ---- Connection (server.js: Connection)
    ended,          \* this._ended
    closed,         \* this._closed
    pushable,       \* this._pushable
    events,         \* events the Connection has emitted, in order
    received,       \* kinds of the frames received from the TNC so far
    \* ---- FrameAssembler (server.js: FrameAssembler)
    maxDataLength,  \* this.maxDataLength
    aBuffer,        \* this.buffer, or null
    bufferCount,    \* this.bufferCount
    timeout,        \* this.timeout is armed
    aTimers,        \* number of timeouts set, neither cleared nor fired
    frames,         \* payloads of the 'D' frames pushed, in order
    aWritten,       \* number of bytes written so far; the k-th byte is k
    aChunks,        \* number of chunks written so far
    aFlushed,       \* _flush has been called
    \* ---- Receiver (guts.js: Receiver)
    sent,           \* payload lengths of the frames the TNC sends, in order
    delivered,      \* number of bytes of the stream given to _write so far
    header,         \* this.header
    headerLength,   \* this.headerLength
    data,           \* this.data, or null
    emitted,        \* frames handed to the client, in order
    failed,         \* _write has thrown and the stream has failed
    \* ---- Server, PortRouter, ConnectionRouter (server.js)
    listening,      \* Server.listening
    socket,         \* the TCP socket: none, connecting, open, destroyed, closed
    serverSocket,   \* Server.socket is set
    fromAGW,        \* the Server's Receiver: open, ending, destroyed, closed
    portClients,    \* PortRouter.clients: the PortThrottle of each port
    throttles,      \* ConnectionRouter.clients: the ConnectionThrottle of each key
    connections,    \* the Connection of each key: none, open, closed
    connEvents,     \* the events each Connection has emitted
    serverEvents,   \* the events the Server has emitted
    owed,           \* <<key, event>>: the key's Connection was open when the
                    \* socket emitted the event
    hosts,          \* Server.hosts
    ports,          \* Server.ports, or undefined
    listenBuffer,   \* Server.listenBuffer is set
    address,        \* Server._address (the arrays that address() flattens)
    listens,        \* number of listen() calls that opened a socket
    own,            \* the validated options of the latest such call
    gPending,       \* 'G' queries on the socket that the TNC has not answered
    gReplied,       \* the ports of the 'G' reply on this socket, if any
    xPending,       \* 'X' frames on the socket that the TNC has not answered
    xFrames,        \* the 'X' frames written since the latest such call
    listeningLog,   \* the 'listening' events emitted since then, in order
    enoent,         \* the ENOENT errors the Server has emitted since then
    lastCall,       \* the latest listen() or close() call and what it did
    lastX           \* the latest 'X' reply and what it caused

VARIABLES
    backpressure,   \* the latest push returned false and _read has not run since
    lastD           \* the latest inbound 'D' frame and what it caused

cvars == <<backpressure, lastD>>

tvars == <<cls, ID, tnc, wq, written, writing, ending, flushed, finished,
           destroyed, buffer, inFlight, maxInFlight, polling, timers, callbacks,
           disconnected,
           out, sinceReply, replies, tncCount, dSentWith, overrun,
           ended, closed, pushable, events, received, cvars>>

avars == <<maxDataLength, aBuffer, bufferCount, timeout, aTimers, frames, aWritten,
           aChunks, aFlushed>>

VARIABLES
    object,         \* the object given to an encoder (toFrame's from)
    bytes,          \* the buffer that the encoder returned, or null
    decoded         \* the object that the decoder returned (fromHeader's into)

VARIABLES
    recvBuffer,     \* RawSocket.recvBuffer: the packets, numbered by arrival
    reading,        \* RawSocket.reading
    pushed,         \* the packets that the RawSocket has pushed to its reader
    arrived,        \* number of frames that have reached the RawSocket
    lastFrame       \* the latest of them and what became of it

VARIABLES
    inbound,        \* the frames the Receiver has emitted, in order, each with
                    \* the connection clients that existed when it arrived
    portRouter,     \* PortRouter.clients: the ports that have a PortThrottle
    routerClients,  \* ConnectionRouter.clients: <<key, client>> pairs
    conns,          \* the ConnectionThrottles made so far, in order, each with
                    \* the frames handed to its onFrameFromAGW
    connectionEvents, \* number of 'connection' events the Server has emitted
    portQueries     \* the ports of the 'y' queries written, in order

qvars == <<inbound, portRouter, routerClients, conns, connectionEvents,
           portQueries>>

wvars == <<recvBuffer, reading, pushed, arrived, lastFrame, qvars>>

kvars == <<object, bytes, decoded, wvars>>

rvars == <<sent, delivered, header, headerLength, data, emitted, failed, kvars>>

lvars == <<hosts, ports, listenBuffer, address, listens, own, gPending,
           gReplied, xPending, xFrames, listeningLog, enoent, lastCall, lastX>>

svars == <<listening, socket, serverSocket, fromAGW, portClients, throttles,
           connections, connEvents, serverEvents, owed, lvars>>

vars == <<tvars, avars, rvars, svars>>

(***************************************************************************)
(* Frames and buffered functions.                                          *)
(***************************************************************************)
Frame(kind, seq) == [kind |-> kind, seq |-> seq]

DataKinds == {"D", "K", "M", "V"}
QueryKinds == {"y", "Y"}
FnKinds == {"fn:callback", "fn:max1", "fn:restore", "fn:flush"}

IsFunction(item) == item.kind \in FnKinds

\* The throttle's fields, gathered so that a handler can be applied as a whole.
This ==
    [cls |-> cls, ID |-> ID, tnc |-> tnc, destroyed |-> destroyed,
     buffer |-> buffer, inFlight |-> inFlight, maxInFlight |-> maxInFlight,
     polling |-> polling, timers |-> timers, callbacks |-> callbacks,
     disconnected |-> disconnected,
     out |-> out,
     sinceReply |-> sinceReply, replies |-> replies, tncCount |-> tncCount,
     dSentWith |-> dSentWith, overrun |-> overrun, writing |-> writing, ending |-> ending,
     flushed |-> flushed, finished |-> finished]

Become(next) == \E t \in {next} :
    /\ buffer' = t.buffer
    /\ inFlight' = t.inFlight
    /\ maxInFlight' = t.maxInFlight
    /\ polling' = t.polling
    /\ timers' = t.timers
    /\ callbacks' = t.callbacks
    /\ disconnected' = t.disconnected
    /\ out' = t.out
    /\ sinceReply' = t.sinceReply
    /\ replies' = t.replies
    /\ tncCount' = t.tncCount
    /\ dSentWith' = t.dSentWith
    /\ overrun' = t.overrun
    /\ writing' = t.writing
    /\ ending' = t.ending
    /\ flushed' = t.flushed
    /\ finished' = t.finished

\* PortThrottle.queryFramesInFlight / ConnectionThrottle.queryFramesInFlight
queryFramesInFlight(t) == Frame(IF t.cls = "port" THEN "y" ELSE "Y", 0)

\* Stream.push(frame): the frame leaves the throttle and reaches the TNC,
\* which answers a query with a reply and queues a 'D' frame for transmission.
push(t, frame) ==
    IF t.destroyed THEN t
    ELSE IF frame.kind \in QueryKinds
    THEN [t EXCEPT !.replies =
              Append(@, IF t.tnc = "honest" THEN t.tncCount ELSE 0)]
    ELSE [t EXCEPT !.out = Append(@, frame),
                   !.sinceReply = IF frame.kind \in DataKinds THEN @ + 1 ELSE @,
                   !.tncCount = IF frame.kind = "D" /\ t.tnc = "honest"
                                THEN @ + 1 ELSE @,
                   !.dSentWith = IF frame.kind = "d" THEN t.tncCount ELSE @]

\* Throttle.pushFrame
pushFrame(t, frame) ==
    IF frame.kind \in DataKinds
    THEN LET t1 == [t EXCEPT !.inFlight = @ + 1,
                             !.overrun = @ \/ ~(t.inFlight < t.maxInFlight)]
             t2 == IF 2 * t1.inFlight = t1.maxInFlight
                   THEN push(t1, queryFramesInFlight(t1))
                   ELSE t1
         IN push(t2, frame)
    ELSE push(t, frame)

\* Throttle.stopPolling
stopPolling(t) ==
    IF t.polling THEN [t EXCEPT !.polling = FALSE, !.timers = @ - 1] ELSE t

\* A pushBuffer that sets no timer.
startPollingNever(t) == t

\* A pushBuffer that sets a timer whether or not one is armed.
startPollingAgain(t) == [t EXCEPT !.polling = TRUE, !.timers = @ + 1]

\* Throttle.pushBuffer, the frame must wait: setInterval unless this.polling.
startPolling(t) ==
    IF ~t.polling THEN [t EXCEPT !.polling = TRUE, !.timers = @ + 1] ELSE t

\* The functions that _transform, bufferFinalFrames and _flush put in the buffer.
call(t, fn) ==
    CASE fn.kind = "fn:callback" ->
            [t EXCEPT !.writing = FALSE, !.callbacks = Append(@, fn.seq)]
      [] fn.kind = "fn:max1" -> [t EXCEPT !.maxInFlight = 1]
      [] fn.kind = "fn:restore" ->
            [t EXCEPT !.maxInFlight = MaxFramesInFlight, !.disconnected = TRUE]
      [] fn.kind = "fn:flush" -> [stopPolling(t) EXCEPT !.finished = TRUE]

\* Mutant: the test lets a frame through when inFlight has reached the limit.
canPushAtLimit(t) == t.inFlight <= t.maxInFlight

\* The test of pushBuffer that lets a frame through.
canPush(t) == t.inFlight < t.maxInFlight

\* Throttle.pushBuffer
RECURSIVE pushBuffer(_)

\* Mutant: a frame that must wait is shifted out of the buffer and lost.
pushBufferShiftFirst(t) ==
    IF t.buffer = <<>> THEN t
    ELSE LET head == Head(t.buffer)
             rest == [t EXCEPT !.buffer = Tail(@)]
         IN IF IsFunction(head) THEN pushBuffer(call(rest, head))
            ELSE IF canPush(t) THEN pushBuffer(stopPolling(pushFrame(rest, head)))
            ELSE startPolling(rest)

\* (The loop works on the value of the throttle, bound once as t.)
pushBuffer(this) ==
    LET loop(t) ==
            IF t.buffer = <<>> THEN t
            ELSE LET head == Head(t.buffer)
                     rest == [t EXCEPT !.buffer = Tail(@)]
                 IN IF IsFunction(head) THEN pushBuffer(call(rest, head))
                    ELSE IF canPush(t)
                    THEN pushBuffer(stopPolling(pushFrame(rest, head)))
                    ELSE startPolling(t)
    IN CHOOSE result \in {loop(t) : t \in {this}} : TRUE

\* A _transform that buffers the callback ahead of the frame.
transformCallbackFirst(t, frame) ==
    pushBuffer([t EXCEPT !.buffer = @ \o <<Frame("fn:callback", frame.seq), frame>>])

\* Throttle._transform(frame, encoding, callback)
transform(t, frame) ==
    pushBuffer([t EXCEPT !.buffer = @ \o <<frame, Frame("fn:callback", frame.seq)>>])

\* Throttle.updateFramesInFlight
updateFramesInFlight(t, value) ==
    pushBuffer([t EXCEPT !.inFlight = value, !.sinceReply = 0])

\* Mutant: the ID frame is buffered ahead of the disconnect.
bufferFinalFramesIDFirst(t) ==
    LET t1 == IF t.ID THEN [t EXCEPT !.buffer = Append(@, Frame("M", 0))] ELSE t
    IN IF ~t.disconnected
       THEN [t1 EXCEPT !.buffer = @ \o <<Frame("fn:max1", 0), Frame("d", 0),
                                          Frame("fn:restore", 0)>>]
       ELSE t1

\* ConnectionThrottle.bufferFinalFrames
bufferFinalFrames(t) ==
    LET t1 == IF ~t.disconnected
              THEN [t EXCEPT !.buffer = @ \o <<Frame("fn:max1", 0), Frame("d", 0),
                                                Frame("fn:restore", 0)>>]
              ELSE t
    IN IF t.ID THEN [t1 EXCEPT !.buffer = Append(@, Frame("M", 0))] ELSE t1

\* Throttle._flush
flush(t) ==
    LET t1 == IF t.cls = "conn" THEN bufferFinalFrames(t) ELSE t
    IN pushBuffer([t1 EXCEPT !.buffer = Append(@, Frame("fn:flush", 0)),
                             !.flushed = TRUE])

\* stream.end(): _flush is called at once when no write is pending, and
\* otherwise when the last pending write has completed (action Flush).
end(t, idle) ==
    IF t.ending THEN t
    ELSE IF idle THEN flush([t EXCEPT !.ending = TRUE])
    ELSE [t EXCEPT !.ending = TRUE]

(***************************************************************************)
(* Connection (server.js 1855-1945).                                       *)
(***************************************************************************)
\* Connection._destroy: 'end' unless already ended, 'close' unless closed.
ConnectionDestroy(before) ==
    /\ ended' = TRUE
    /\ closed' = TRUE
    /\ events' = before \o (IF ended \/ "end" \in {before[i] : i \in 1..Len(before)}
                            THEN <<>> ELSE <<"end">>)
                        \o (IF closed THEN <<>> ELSE <<"close">>)

\* The throttle emits 'close': ConnectionRouter.newClient's handler destroys
\* the Connection and Router's handler deletes the client.
ThrottleClose(before) ==
    /\ destroyed' = TRUE
    /\ IF cls = "conn" THEN ConnectionDestroy(before)
       ELSE UNCHANGED <<ended, closed, events>>

(***************************************************************************)
(* Actions of the throttle and its connection.                             *)
(***************************************************************************)
ReplyValues == {0, 3, 7, MaxFramesInFlight, LargeCount}

WriteKinds ==
    IF cls = "conn" THEN {"D"}
    ELSE IF Cardinality({i \in 1..Len(written) : written[i].kind # "D"}) < MaxOther
         THEN {"D", "M", "d"}
         ELSE {"D"}

\* stream.write(frame)
Write(limit) ==
    /\ ~ending /\ ~destroyed
    /\ Len(written) < limit
    /\ Len(wq) < MaxQueue
    /\ \E kind \in WriteKinds :
          LET frame == Frame(kind, Len(written) + 1)
          IN /\ written' = Append(written, frame)
             /\ wq' = Append(wq, frame)
    /\ UNCHANGED <<cls, ID, tnc, writing, ending, flushed, finished, destroyed,
                   buffer, inFlight, maxInFlight, polling, timers, callbacks, disconnected, out,
                   sinceReply, replies, tncCount, dSentWith, overrun,
                   ended, closed, pushable, events, received>>
    /\ UNCHANGED <<avars, rvars, svars, cvars>>

\* Throttle._transform(frame, encoding, callback)
Transform ==
    /\ wq # <<>> /\ ~writing /\ ~destroyed
    /\ wq' = Tail(wq)
    /\ Become(transform([This EXCEPT !.writing = TRUE], Head(wq)))
    /\ UNCHANGED <<cls, ID, tnc, written, destroyed,
                   ended, closed, pushable, events, received>>
    /\ UNCHANGED <<avars, rvars, svars, cvars>>

\* stream.end() by the writer (FrameAssembler 'end', or the owner of a port)
End ==
    /\ ~ending /\ ~destroyed
    /\ Become(end(This, wq = <<>> /\ ~writing))
    /\ UNCHANGED <<cls, ID, tnc, wq, written, destroyed,
                   ended, closed, pushable, events, received>>
    /\ UNCHANGED <<avars, rvars, svars, cvars>>

\* Throttle._flush(callback), once the last pending write has completed
Flush ==
    /\ ending /\ wq = <<>> /\ ~writing /\ ~flushed /\ ~destroyed
    /\ Become(flush(This))
    /\ UNCHANGED <<cls, ID, tnc, wq, written, destroyed,
                   ended, closed, pushable, events, received>>
    /\ UNCHANGED <<avars, rvars, svars, cvars>>

\* The stream has finished: the callback given to end() by the 'd' handler
\* (destroy, emit 'close') or the stream's own destruction closes it.
Close ==
    /\ finished /\ ~destroyed
    /\ ThrottleClose(events)
    /\ UNCHANGED <<cls, ID, tnc, wq, written, writing, ending, flushed, finished,
                   buffer, inFlight, maxInFlight, polling, timers, callbacks, disconnected, out,
                   sinceReply, replies, tncCount, dSentWith, overrun,
                   pushable, received>>
    /\ UNCHANGED <<avars, rvars, svars, cvars>>

\* A 'y'/'Y' reply arrives: onFrameFromAGW -> updateFramesInFlight.
\* Once the client is deleted from its router the reply has no receiver.
ReplyWith(value) ==
    /\ replies # <<>>
    /\ value \in (IF tnc = "honest" THEN {Head(replies)} ELSE ReplyValues)
    /\ LET t1 == [This EXCEPT !.replies = Tail(@)]
       IN Become(IF destroyed THEN t1 ELSE updateFramesInFlight(t1, value))
    /\ UNCHANGED <<cls, ID, tnc, wq, written, destroyed,
                   ended, closed, pushable, events, received>>
    /\ UNCHANGED <<avars, rvars, svars, cvars>>

Reply == \E value \in ReplyValues : ReplyWith(value)

\* The setInterval of pushBuffer fires.
PollTick ==
    /\ polling
    /\ Len(replies) < MaxReplies
    /\ Become(pushFrame(This, queryFramesInFlight(This)))
    /\ UNCHANGED <<cls, ID, tnc, wq, written, destroyed,
                   ended, closed, pushable, events, received>>
    /\ UNCHANGED <<avars, rvars, svars, cvars>>

\* The TNC transmits one of the frames it holds.
Transmit ==
    /\ tncCount > 0
    /\ tncCount' = tncCount - 1
    /\ UNCHANGED <<cls, ID, tnc, wq, written, writing, ending, flushed, finished,
                   destroyed, buffer, inFlight, maxInFlight, polling, timers, callbacks,
                   disconnected, out, sinceReply, replies, dSentWith, overrun,
                   ended, closed, pushable, events, received>>
    /\ UNCHANGED <<avars, rvars, svars, cvars>>

\* A 'd' frame arrives from the TNC: ConnectionThrottle.onFrameFromAGW, which
\* hands it to Connection.onFrameFromAGW first.
ReceiveDisconnect ==
    /\ cls = "conn" /\ ~destroyed
    /\ Len(received) < MaxInbound
    /\ received' = Append(received, "d")
    /\ IF disconnected
       THEN \* we disconnected: destroy() and emit 'close'
            /\ ThrottleClose(Append(events, "end"))
            /\ UNCHANGED <<buffer, inFlight, maxInFlight, polling, timers, callbacks, disconnected,
                           out, sinceReply, replies, tncCount, dSentWith, overrun,
                           writing, ending, flushed, finished>>
       ELSE \* the remote station disconnected: end(), then destroy and close
            /\ events' = Append(events, "end")
            /\ ended' = TRUE
            /\ Become(end([This EXCEPT !.disconnected = TRUE],
                          wq = <<>> /\ ~writing))
            /\ UNCHANGED <<destroyed, closed>>
    /\ UNCHANGED <<cls, ID, tnc, wq, written, pushable>>
    /\ UNCHANGED <<avars, rvars, svars, cvars>>

\* A 'D' handler that pushes the data of a closed Connection.
onDataIgnoringClose(isClosed, isPushable) ==
    IF ~isPushable THEN "receive buffer overflow"
    ELSE "data"

\* Connection.onFrameFromAGW, case 'D': the message of the error that it
\* emits, or "data" when it pushes the frame's data.
onData(isClosed, isPushable) ==
    IF isClosed THEN "received data after close"
    ELSE IF ~isPushable THEN "receive buffer overflow"
    ELSE "data"

NoData == [closed |-> FALSE, backpressure |-> FALSE, result |-> "none"]

\* A 'D' frame arrives from the TNC, and the ConnectionRouter still holds
\* the ConnectionThrottle: Connection.onFrameFromAGW.
ReceiveData ==
    /\ cls = "conn" /\ ~destroyed
    /\ Len(received) < MaxInbound
    /\ received' = Append(received, "D")
    /\ lastD' = [closed |-> closed, backpressure |-> backpressure,
                 result |-> onData(closed, pushable)]
    /\ IF onData(closed, pushable) # "data"
       THEN /\ events' = Append(events, "error")
            /\ UNCHANGED <<pushable, backpressure>>
       ELSE /\ events' = Append(events, "data")
            /\ \E more \in BOOLEAN :
                  /\ pushable' = more
                  /\ backpressure' = ~more
    /\ UNCHANGED <<cls, ID, tnc, wq, written, writing, ending, flushed, finished,
                   destroyed, buffer, inFlight, maxInFlight, polling, timers, callbacks,
                   disconnected, out, sinceReply, replies, tncCount, dSentWith, overrun,
                   ended, closed>>
    /\ UNCHANGED <<avars, rvars, svars>>

\* Connection._read(size)
Read ==
    /\ cls = "conn" /\ ~closed /\ ~pushable
    /\ pushable' = TRUE
    /\ backpressure' = FALSE
    /\ UNCHANGED <<cls, ID, tnc, wq, written, writing, ending, flushed, finished,
                   destroyed, buffer, inFlight, maxInFlight, polling, timers, callbacks,
                   disconnected, out, sinceReply, replies, tncCount, dSentWith, overrun,
                   ended, closed, events, received>>
    /\ UNCHANGED <<avars, rvars, svars, lastD>>

\* connection.destroy() by the application: Connection._destroy.  Its
\* 'finish' event ends the FrameAssembler, whose 'end' ends the throttle
\* later (action End); the ConnectionRouter keeps the throttle until then.
Destroy ==
    /\ cls = "conn" /\ ~closed /\ ~destroyed
    /\ ConnectionDestroy(events)
    /\ UNCHANGED <<cls, ID, tnc, wq, written, writing, ending, flushed, finished,
                   destroyed, buffer, inFlight, maxInFlight, polling, timers, callbacks,
                   disconnected, out, sinceReply, replies, tncCount, dSentWith, overrun,
                   pushable, received>>
    /\ UNCHANGED <<avars, rvars, svars, cvars>>

(***************************************************************************)
(* Buffers (Node's Buffer): a sequence of bytes; offsets count from 0.     *)
(***************************************************************************)
null == <<>>

Min(a, b) == IF a < b THEN a ELSE b

\* Buffer.alloc(size)
alloc(size) == [i \in 1..size |-> 0]

\* source.copy(target, targetStart, sourceStart, sourceEnd)
copy(source, target, targetStart, sourceStart, sourceEnd) ==
    LET n == Min(Min(sourceEnd, Len(source)) - sourceStart,
                 Len(target) - targetStart)
    IN [i \in 1..Len(target) |->
          IF i > targetStart /\ i <= targetStart + n
          THEN source[sourceStart + (i - targetStart)]
          ELSE target[i]]

\* buf.subarray(start, end)
subarray(buf, start, stop) == SubSeq(buf, start + 1, Min(stop, Len(buf)))

\* guts.js copyBuffer(from, start, end)
copyBuffer(from, start, stop) ==
    LET last == Min(stop, Len(from))
    IN copy(from, alloc(last - start), 0, start, last)

(***************************************************************************)
(* FrameAssembler (server.js 1725-1852).                                   *)
(***************************************************************************)
ThisAssembler ==
    [maxDataLength |-> maxDataLength, buffer |-> aBuffer,
     bufferCount |-> bufferCount, timeout |-> timeout, timers |-> aTimers,
     frames |-> frames]

BecomeAssembler(a) ==
    /\ aBuffer' = a.buffer
    /\ bufferCount' = a.bufferCount
    /\ timeout' = a.timeout
    /\ aTimers' = a.timers
    /\ frames' = a.frames

\* FrameAssembler.pushFrame
assemblerPushFrame(a, payload) ==
    IF Len(payload) > 0 THEN [a EXCEPT !.frames = Append(@, payload)] ELSE a

\* clearTimeout(this.timeout), if a timeout is armed
clearTimeout(a) ==
    IF a.timeout THEN [a EXCEPT !.timeout = FALSE, !.timers = @ - 1] ELSE a

\* A _transform that sets a timeout whether or not one is armed.
startTimeoutAgain(a) == [a EXCEPT !.timeout = TRUE, !.timers = @ + 1]

\* FrameAssembler._transform: start the timeout, if it's not already running.
startTimeout(a) ==
    IF ~a.timeout THEN [a EXCEPT !.timeout = TRUE, !.timers = @ + 1] ELSE a

\* Mutant: the buffer is pushed and kept.
assemblerPushBufferKeep(a) ==
    LET a1 == clearTimeout(a)
    IN IF a1.bufferCount > 0
       THEN assemblerPushFrame(a1, subarray(a1.buffer, 0, a1.bufferCount))
       ELSE a1

\* FrameAssembler.pushBuffer
assemblerPushBuffer(a) ==
    LET a1 == clearTimeout(a)
    IN IF a1.bufferCount > 0
       THEN assemblerPushFrame([a1 EXCEPT !.bufferCount = 0, !.buffer = null],
                               subarray(a1.buffer, 0, a1.bufferCount))
       ELSE a1

\* The for loop of FrameAssembler._transform
RECURSIVE transformLoop(_, _, _)
transformLoop(a, chunk, dataNext) ==
    IF dataNext >= Len(chunk) THEN a
    ELSE LET dataEnd == dataNext + a.maxDataLength
         IN IF dataEnd <= Len(chunk)
            THEN transformLoop(
                     assemblerPushFrame(a, subarray(chunk, dataNext, dataEnd)),
                     chunk, dataEnd)
            ELSE [a EXCEPT !.buffer = copy(chunk, alloc(a.maxDataLength), 0,
                                           dataNext, Len(chunk)),
                           !.bufferCount = Len(chunk) - dataNext,
                           !.timeout = TRUE,
                           !.timers = @ + 1]

\* FrameAssembler._transform
assemblerTransform(a, chunk) ==
    IF a.bufferCount + Len(chunk) < a.maxDataLength
    THEN LET a1 == IF a.buffer = null
                   THEN [a EXCEPT !.buffer = alloc(a.maxDataLength),
                                  !.bufferCount = 0]
                   ELSE a
         IN startTimeout(
                [a1 EXCEPT !.buffer = copy(chunk, @, a1.bufferCount, 0, Len(chunk)),
                           !.bufferCount = @ + Len(chunk)])
    ELSE LET dataNext == IF a.buffer = null THEN 0
                         ELSE Len(a.buffer) - a.bufferCount
             a1 == IF dataNext > 0
                   THEN [a EXCEPT !.buffer = copy(chunk, @, a.bufferCount, 0, dataNext),
                                  !.bufferCount = @ + dataNext]
                   ELSE a
         IN transformLoop(assemblerPushBuffer(a1), chunk, dataNext)

\* stream.write(chunk): _transform is called with each chunk, in order.
AssemblerWrite ==
    /\ ~aFlushed
    /\ aChunks < MaxChunks
    /\ \E length \in 0..MaxChunkLength :
          LET chunk == [i \in 1..length |-> aWritten + i]
          IN /\ BecomeAssembler(assemblerTransform(ThisAssembler, chunk))
             /\ aWritten' = aWritten + length
    /\ aChunks' = aChunks + 1
    /\ UNCHANGED <<maxDataLength, aFlushed, tvars, rvars, svars>>

\* The setTimeout of _transform fires.
AssemblerTimeout ==
    /\ timeout
    /\ BecomeAssembler(assemblerPushBuffer(
          [ThisAssembler EXCEPT !.timeout = FALSE, !.timers = @ - 1]))
    /\ UNCHANGED <<maxDataLength, aWritten, aChunks, aFlushed, tvars, rvars, svars>>

\* stream.end(): FrameAssembler._flush
AssemblerFlush ==
    /\ ~aFlushed
    /\ BecomeAssembler(assemblerPushBuffer(ThisAssembler))
    /\ aFlushed' = TRUE
    /\ UNCHANGED <<maxDataLength, aWritten, aChunks, tvars, rvars, svars>>

\* A FrameAssembler right after construction.
InitAssembler ==
    /\ aBuffer = null
    /\ bufferCount = 0
    /\ timeout = FALSE
    /\ aTimers = 0
    /\ frames = <<>>
    /\ aWritten = 0
    /\ aChunks = 0
    /\ aFlushed = FALSE

IdleAssembler == maxDataLength = 1 /\ InitAssembler

(***************************************************************************)
(* The frame codec (guts.js 172-200, 445-466).  Strings are sequences of    *)
(* character codes; TLC's integers end at 2^31 - 1, so that is the largest  *)
(* user field here.                                                         *)
(***************************************************************************)
NoPID == 240

\* buffer[index] = value: a Buffer keeps the low 8 bits.
setByte(buf, index, value) == [buf EXCEPT ![index + 1] = value % 256]

\* buffer.write(string, offset, 'ascii'): the low byte of each character,
\* as far as the buffer reaches.
write(buf, string, offset) ==
    [i \in 1..Len(buf) |->
        IF i > offset /\ i <= offset + Len(string)
        THEN string[i - offset] % 256
        ELSE buf[i]]

\* A writeUInt32 that stores the most significant byte first.
writeUInt32BE(buf, value, offset) ==
    [buf EXCEPT ![offset + 4] = value % 256,
                ![offset + 3] = (value \div 256) % 256,
                ![offset + 2] = (value \div 65536) % 256,
                ![offset + 1] = (value \div 16777216) % 256]

\* buffer.writeUInt32LE(value, offset)
writeUInt32LE(buf, value, offset) ==
    [buf EXCEPT ![offset + 1] = value % 256,
                ![offset + 2] = (value \div 256) % 256,
                ![offset + 3] = (value \div 65536) % 256,
                ![offset + 4] = (value \div 16777216) % 256]

\* guts.js toFrame(from), for data that is a Buffer; a PID of -1 stands for
\* a PID that is null.
toFrame(from) ==
    LET dataLength == Len(from.data)
        f0 == alloc(HeaderLength + dataLength)
        f1 == setByte(f0, 0, from.port)
        f2 == setByte(f1, 4, from.dataKind)
        f3 == setByte(f2, 6, IF from.PID # -1 THEN from.PID ELSE NoPID)
        f4 == write(f3, from.callFrom, 8)
        f5 == write(f4, from.callTo, 18)
        f6 == writeUInt32LE(f5, dataLength, 28)
        f7 == writeUInt32LE(f6, from.user, 32)
    IN IF dataLength > 0
       THEN copy(from.data, f7, HeaderLength, 0, dataLength)
       ELSE f7

(***************************************************************************)
(* The AX.25 packet codec (guts.js 19-46, 200-409).  A call sign is a      *)
(* record of its base (character codes) and its SSID; a field that a       *)
(* packet lacks is FALSE, -1, <<>> or "none".                              *)
(***************************************************************************)
sTypes == <<"RR", "RNR", "REJ", "SREJ">>

\* uTypes[index]
uTypes(index) ==
    CASE index = 15 -> "SABME"
      [] index = 7 -> "SABM"
      [] index = 8 -> "DISC"
      [] index = 3 -> "DM"
      [] index = 12 -> "UA"
      [] index = 16 -> "FRMR"
      [] index = 0 -> "UI"
      [] index = 23 -> "XID"
      [] index = 28 -> "TEST"
      [] OTHER -> "none"

\* controlBits[type] || 0
controlBits(type) ==
    CASE type = "I" -> 0
      [] type = "RR" -> 1
      [] type = "RNR" -> 5
      [] type = "REJ" -> 9
      [] type = "SREJ" -> 13
      [] type = "SABME" -> 111
      [] type = "SABM" -> 47
      [] type = "DISC" -> 67
      [] type = "DM" -> 15
      [] type = "UA" -> 99
      [] type = "FRMR" -> 135
      [] type = "UI" -> 3
      [] type = "XID" -> 175
      [] type = "TEST" -> 195
      [] OTHER -> 0

\* byte | 0x80
orHighBit(byte) == IF byte >= 128 THEN byte ELSE byte + 128

\* buffer[index] += value, in a Buffer
addByte(byte, value) == (byte + value) % 256

\* guts.js encodeCallSign(buffer, start, call)
encodeCallSign(buf, start, callSign) ==
    [i \in 1..Len(buf) |->
        IF i > start /\ i <= start + 6
        THEN IF i - start > Len(callSign.base) THEN 64
             ELSE ((callSign.base[i - start] % 128) * 2) % 256
        ELSE IF i = start + 7 THEN (callSign.ssid * 2) % 256
        ELSE buf[i]]

\* guts.js decodeCallSign(buffer, start): the characters up to the first
\* space, and the SSID.
RECURSIVE decodeBase(_, _, _)
decodeBase(buf, b, stop) ==
    IF b >= stop \/ buf[b + 1] \div 2 = 32 THEN <<>>
    ELSE <<buf[b + 1] \div 2>> \o decodeBase(buf, b + 1, stop)

decodeCallSign(buf, start) ==
    [base |-> decodeBase(buf, start, start + 6),
     ssid |-> (buf[start + 7] \div 2) % 16]

\* encodePacket: via.forEach(encodeCallSign), from offset next on
RECURSIVE encodeVia(_, _, _)
encodeVia(buf, via, next) ==
    IF via = <<>> THEN buf
    ELSE encodeVia(encodeCallSign(buf, next, Head(via)), Tail(via), next + 7)

\* encodePacket, cases RR, RNR, REJ, SREJ: the control field
supervisoryControl(packet) ==
    controlBits(packet.type)
        + (IF packet.NR # -1 THEN (packet.NR % 8) * 32 ELSE 0)

\* encodePacket: the control field
controlOf(packet) ==
    CASE packet.type \in {"SABME", "SABM", "DISC", "UI"} ->
            controlBits(packet.type) + (IF packet.P THEN 16 ELSE 0)
      [] packet.type \in {"DM", "UA", "FRMR"} ->
            controlBits(packet.type) + (IF packet.F THEN 16 ELSE 0)
      [] packet.type \in {"RR", "RNR", "REJ", "SREJ"} -> supervisoryControl(packet)
      [] packet.type = "I" ->
            controlBits(packet.type)
                + (IF packet.P THEN 16 ELSE 0)
                + (IF packet.NR # -1 THEN (packet.NR % 8) * 32 ELSE 0)
                + (IF packet.NS # -1 THEN (packet.NS % 8) * 2 ELSE 0)
      [] OTHER -> controlBits(packet.type)

\* guts.js encodePacket(packet), for a packet that passes its validation
encodePacket(packet) ==
    LET hasPID == packet.type \in {"I", "UI"}
        next == 14 + 7 * Len(packet.via)
        b0 == alloc(next + 1 + (IF hasPID THEN 1 ELSE 0) + Len(packet.info))
        b1 == encodeCallSign(b0, 0, packet.toAddress)
        b2 == encodeCallSign(b1, 7, packet.fromAddress)
        b3 == IF packet.command THEN [b2 EXCEPT ![7] = orHighBit(@)]
              ELSE IF packet.response THEN [b2 EXCEPT ![14] = orHighBit(@)]
              ELSE b2
        b4 == encodeVia(b3, packet.via, 14)
        b5 == [b4 EXCEPT ![next] = addByte(@, 1)]
        b6 == IF packet.type \in {"RR", "RNR", "REJ", "SREJ"}
              THEN IF packet.P THEN [b5 EXCEPT ![7] = addByte(@, 128)]
                   ELSE IF packet.F THEN [b5 EXCEPT ![14] = addByte(@, 128)]
                   ELSE b5
              ELSE b5
        b7 == setByte(b6, next, controlOf(packet))
        b8 == IF hasPID
              THEN setByte(b7, next + 1, IF packet.PID # -1 THEN packet.PID ELSE NoPID)
              ELSE b7
    IN IF packet.info # <<>>
       THEN copy(packet.info, b8, next + 1 + (IF hasPID THEN 1 ELSE 0), 0,
                 Len(packet.info))
       ELSE b8

\* decodePacket: the repeaters, from offset next on, up to the address that
\* carries the end-of-addresses bit
RECURSIVE decodeVia(_, _)
decodeVia(buf, next) ==
    IF buf[next] % 2 # 0 \/ next + 7 > Len(buf) THEN <<>>
    ELSE <<decodeCallSign(buf, next)>> \o decodeVia(buf, next + 7)

\* guts.js decodePacket(buffer), for a buffer that holds a control field
decodePacket(buf) ==
    LET toC == buf[7] >= 128
        fromC == buf[14] >= 128
        command == toC /\ ~fromC
        via == decodeVia(buf, 14)
        next == 14 + 7 * Len(via)
        control == buf[next + 1]
        class == IF control % 2 = 0 THEN "I"
                 ELSE IF (control \div 2) % 2 = 0 THEN "S" ELSE "U"
        type == CASE class = "U" ->
                        uTypes(((control \div 32) * 4) + ((control \div 4) % 4))
                  [] class = "S" -> sTypes[((control \div 4) % 4) + 1]
                  [] OTHER -> "I"
        hasPID == type \in {"I", "UI"}
        first == IF hasPID THEN buf[next + 2] ELSE -1
        escaped == first \in {255, 8}
        PID == IF ~hasPID \/ first = NoPID THEN -1
               ELSE IF escaped THEN buf[next + 3]
               ELSE first
        after == next + 1 + (IF hasPID THEN (IF escaped THEN 2 ELSE 1) ELSE 0)
        poll == (control \div 16) % 2 = 1
    IN [type |-> type,
        toAddress |-> decodeCallSign(buf, 0),
        fromAddress |-> decodeCallSign(buf, 7),
        via |-> via,
        command |-> command,
        response |-> ~toC /\ fromC,
        P |-> poll /\ (\/ type \in {"SABM", "SABME", "DISC", "I"}
                       \/ (type \in {"RR", "RNR", "REJ", "SREJ"} /\ command)),
        F |-> poll /\ (\/ type \in {"DM", "UA", "FRMR"}
                       \/ (type \in {"RR", "RNR", "REJ", "SREJ"} /\ ~command)),
        NR |-> IF class \in {"S", "I"} THEN control \div 32 ELSE -1,
        NS |-> IF class = "I" THEN (control \div 2) % 8 ELSE -1,
        PID |-> PID,
        info |-> IF after < Len(buf) THEN copyBuffer(buf, after, Len(buf)) ELSE <<>>]

(***************************************************************************)
(* Receiver (guts.js 469-557) and the byte stream the TNC sends to it.     *)
(***************************************************************************)
\* Payload lengths of the frames the TNC may send.
PayloadLengths == {0, 1, 2, 40}

\* Lengths of the chunks in which the socket delivers the stream.
ChunkLengths == {1, 9, 35, 36, 37, 41, 80}

\* buffer.readUInt32LE(offset)
readUInt32LE(buf, offset) ==
    buf[offset + 1] + 256 * buf[offset + 2] + 65536 * buf[offset + 3]
        + 16777216 * buf[offset + 4]

\* guts.js getASCII(frame, offset): the bytes up to the first NUL.
RECURSIVE getASCII(_, _)
getASCII(frame, offset) ==
    IF offset >= Len(frame) \/ frame[offset + 1] = 0 THEN <<>>
    ELSE <<frame[offset + 1]>> \o getASCII(frame, offset + 1)

\* guts.js fromHeader(buffer)
fromHeader(buf) ==
    [port |-> buf[1], dataKind |-> buf[5], PID |-> buf[7],
     callFrom |-> getASCII(buf, 8), callTo |-> getASCII(buf, 18),
     user |-> readUInt32LE(buf, 32)]

\* The frame objects that are encoded: the least and the greatest port and
\* PID, a dataKind within and beyond one byte, call signs of 0, 1 and 9
\* characters, a user field that fills 0, 1, 2 and 4 bytes, and payloads.
FrameObjects ==
    [port : {0, 1, 255},
     dataKind : {68, 100, 8364},
     PID : {0, NoPID, 255},
     callFrom : {<<>>, <<65>>, <<78, 48, 67, 65, 76, 76, 45, 49, 53>>},
     callTo : {<<>>, <<66>>, <<87, 49, 65, 87, 47, 80, 45, 49, 48>>},
     user : {0, 1, 65792, LargeCount},
     data : {<<>>, <<200, 0, 13>>}]

NoObject ==
    [port |-> -1, dataKind |-> -1, PID |-> -1, callFrom |-> <<>>,
     callTo |-> <<>>, user |-> -1]

\* toFrame(object)
Encode ==
    /\ bytes = null
    /\ bytes' = toFrame(object)
    /\ UNCHANGED <<object, decoded, sent, delivered, header, headerLength, data,
                   emitted, failed, tvars, avars, svars, wvars>>

\* fromHeader(buffer), on the buffer that toFrame returned
Decode ==
    /\ bytes # null
    /\ decoded = NoObject
    /\ decoded' = fromHeader(bytes)
    /\ UNCHANGED <<object, bytes, sent, delivered, header, headerLength, data,
                   emitted, failed, tvars, avars, svars, wvars>>

\* The packets that are encoded: every type of the control table, with
\* and without a repeater, command or response, P or F, and NR, NS, PID and
\* info where the type has them.  N0CALL to A-15 via WIDE1-1.
PacketTypes ==
    {"I", "RR", "RNR", "REJ", "SREJ", "SABME", "SABM", "DISC", "DM", "UA",
     "FRMR", "UI", "XID", "TEST"}

Packets ==
    {p \in [type : PacketTypes,
            toAddress : {[base |-> <<78, 48, 67, 65, 76, 76>>, ssid |-> 0]},
            fromAddress : {[base |-> <<65>>, ssid |-> 15]},
            via : {<<>>, <<[base |-> <<87, 73, 68, 69, 49>>, ssid |-> 1]>>},
            command : BOOLEAN, response : BOOLEAN, P : BOOLEAN, F : BOOLEAN,
            NR : {-1, 0, 5}, NS : {-1, 3}, PID : {-1, 207},
            info : {<<>>, <<200, 13>>}] :
        /\ ~(p.P /\ p.F)
        /\ ~(p.command /\ p.response)
        /\ p.NR # -1 <=> p.type \in {"I", "RR", "RNR", "REJ", "SREJ"}
        /\ p.NS # -1 <=> p.type = "I"
        /\ p.PID # -1 => p.type \in {"I", "UI"}
        /\ p.info # <<>> => p.type \in {"I", "UI"}}

NoPacket ==
    [type |-> "none", toAddress |-> [base |-> <<>>, ssid |-> 0],
     fromAddress |-> [base |-> <<>>, ssid |-> 0], via |-> <<>>,
     command |-> FALSE, response |-> FALSE, P |-> FALSE, F |-> FALSE,
     NR |-> -1, NS |-> -1, PID |-> -1, info |-> <<>>]

\* encodePacket(object)
EncodePacket ==
    /\ bytes = null
    /\ bytes' = encodePacket(object)
    /\ UNCHANGED <<object, decoded, sent, delivered, header, headerLength, data,
                   emitted, failed, tvars, avars, svars, wvars>>

\* decodePacket(buffer), on the buffer that encodePacket returned
DecodePacket ==
    /\ bytes # null
    /\ decoded = NoPacket
    /\ decoded' = decodePacket(bytes)
    /\ UNCHANGED <<object, bytes, sent, delivered, header, headerLength, data,
                   emitted, failed, tvars, avars, svars, wvars>>

(***************************************************************************)
(* RawSocket (raw.js 26-124): the packets that 'K' frames bring.           *)
(***************************************************************************)
NoFrame == [id |-> 0, kind |-> "none", full |-> FALSE, kept |-> FALSE]

\* A RawSocket whose buffer takes one packet more than its limit.
hasRoomAtLimit(length) == length <= RecvBufferSize

\* RawSocket.onFrameFromAGW: the buffer has room for the packet.
hasRoom(length) == length < RecvBufferSize

\* The loops of onFrameFromAGW and _read: packets are shifted from the
\* buffer and pushed while this.reading and the buffer is not empty;
\* count packets are pushed, and the last push returns more.
Drain(buf, count, more) ==
    /\ pushed' = pushed \o SubSeq(buf, 1, count)
    /\ recvBuffer' = SubSeq(buf, count + 1, Len(buf))
    /\ reading' = more

\* The ways the loop can go: each push but the last returned true, and the
\* last returned true only if it emptied the buffer.
Drains(buf) ==
    {<<count, more>> \in (1..Len(buf)) \X BOOLEAN : more => count = Len(buf)}

\* A frame reaches RawSocket.onFrameFromAGW: a frame that is not 'K' raises
\* an error; the packet of a 'K' frame is buffered if there is room, and
\* the buffer is pushed to the reader while it reads.
RawFrame(kind) ==
    /\ arrived < MaxPackets
    /\ arrived' = arrived + 1
    /\ lastFrame' = [id |-> arrived + 1, kind |-> kind,
                     full |-> Len(recvBuffer) >= RecvBufferSize,
                     kept |-> kind = "K" /\ hasRoom(Len(recvBuffer))]
    /\ IF kind = "K" /\ hasRoom(Len(recvBuffer))
       THEN LET buf == Append(recvBuffer, arrived + 1)
            IN IF reading
               THEN \E d \in Drains(buf) : Drain(buf, d[1], d[2])
               ELSE /\ recvBuffer' = buf
                    /\ UNCHANGED <<reading, pushed>>
       ELSE UNCHANGED <<recvBuffer, reading, pushed>>
    /\ UNCHANGED <<object, bytes, decoded, sent, delivered, header, headerLength,
                   data, emitted, failed, tvars, avars, svars, qvars>>

\* RawSocket._read(size)
RawRead ==
    /\ ~reading
    /\ IF recvBuffer = <<>>
       THEN /\ reading' = TRUE
            /\ UNCHANGED <<recvBuffer, pushed>>
       ELSE \E d \in Drains(recvBuffer) : Drain(recvBuffer, d[1], d[2])
    /\ UNCHANGED <<arrived, lastFrame, object, bytes, decoded, sent, delivered,
                   header, headerLength, data, emitted, failed, tvars, avars,
                   svars, qvars>>

(***************************************************************************)
(* Router, PortRouter, ConnectionRouter (server.js 1305-1481) and the      *)
(* onFrameFromAGW of the throttles: the way of a frame to its client.      *)
(***************************************************************************)
RouterPorts == {0, 1}
Stations == {"W1AW", "K1AA"}

\* The connections that the TNC may report, as <<port, remote call, local
\* call>>: two remote stations, a second port, and W1AW and N0CALL in both
\* roles.
Links ==
    {<<0, "W1AW", "N0CALL">>, <<0, "K1AA", "N0CALL">>, <<0, "N0CALL", "W1AW">>,
     <<1, "W1AW", "N0CALL">>}

\* The frames the TNC sends: 'C' and 'D' frames (and 'd' frames, which take
\* the way of 'D' frames) come from the remote station to the local one, a
\* 'Y' reply repeats the calls of its query
\* (ConnectionThrottle.queryFramesInFlight) and brings a count, an 'X'
\* reply names the registered call, a 'y' reply names none.
RoutedFrames ==
    {[kind |-> k, port |-> l[1], callFrom |-> l[2], callTo |-> l[3], count |-> 0] :
        k \in {"C", "D"}, l \in Links}
    \cup {[kind |-> "Y", port |-> l[1], callFrom |-> l[3], callTo |-> l[2], count |-> n] :
        l \in Links, n \in {3, 7}}
    \cup [kind : {"X"}, port : {0}, callFrom : {"N0CALL"}, callTo : {""}, count : {0}]
    \cup [kind : {"G"}, port : {0}, callFrom : {""}, callTo : {""}, count : {0}]
    \cup [kind : {"y"}, port : RouterPorts, callFrom : {""}, callTo : {""}, count : {0}]

\* A getKey that treats a 'Y' frame like any other.
getKeyAsIs(f) == <<f.port, f.callFrom, f.callTo>>

\* ConnectionRouter.getKey
getKey(f) ==
    IF f.kind = "Y" THEN <<f.port, f.callTo, f.callFrom>>
    ELSE <<f.port, f.callFrom, f.callTo>>

\* A newClient that makes a client for a 'D' frame too.
isConnectOrData(f) == f.kind \in {"C", "D"}

\* ConnectionRouter.newClient: the frame is one that makes a client.
isConnect(f) == f.kind = "C"

\* A ConnectionThrottle that takes no count from a 'Y' frame.
clientOnFrameKeepingCount(c, f, id) == [c EXCEPT !.handed = Append(@, id)]

\* ConnectionThrottle.onFrameFromAGW, as far as the routing goes: a 'Y'
\* frame sets inFlight (updateFramesInFlight).
clientOnFrame(c, f, id) ==
    IF f.kind = "Y"
    THEN [c EXCEPT !.handed = Append(@, id), !.inFlight = f.count]
    ELSE [c EXCEPT !.handed = Append(@, id)]

\* that.clients[key] of the ConnectionRouter: the client's number, or 0.
clientAt(key) ==
    IF \E c \in routerClients : c[1] = key
    THEN (CHOOSE c \in routerClients : c[1] = key)[2]
    ELSE 0

\* The clients that the ConnectionRouters hold.
LiveClients == {c[2] : c \in routerClients}

\* A frame arrives: Router.emitFrameFromAGW of the PortRouter makes the
\* port's PortThrottle unless there is one (PortRouter.newClient, which
\* writes a 'y' query to it); PortRouter.onFrameFromAGW keeps
\* 'G' and 'X' frames and PortThrottle.onFrameFromAGW keeps 'g' and 'y'
\* frames; any other goes to Router.emitFrameFromAGW of the ConnectionRouter,
\* which makes a client for a 'C' frame unless the key has one, and hands
\* the frame to the key's client, if any.
RouteFrame(f) ==
    /\ Len(inbound) < MaxRouted
    /\ inbound' = Append(inbound, [frame |-> f, live |-> LiveClients])
    /\ portRouter' = portRouter \cup {f.port}
    /\ portQueries' = IF f.port \in portRouter THEN portQueries
                      ELSE Append(portQueries, f.port)
    /\ IF f.kind \in {"G", "X", "g", "y"}
       THEN UNCHANGED <<routerClients, conns, connectionEvents>>
       ELSE LET key == getKey(f)
                id == Len(inbound) + 1
                found == clientAt(key)
            IN IF found # 0
               THEN /\ conns' = [conns EXCEPT ![found] = clientOnFrame(@, f, id)]
                    /\ UNCHANGED <<routerClients, connectionEvents>>
               ELSE IF isConnect(f)
               THEN /\ connectionEvents' = connectionEvents + 1
                    /\ conns' = Append(conns,
                          clientOnFrame([port |-> f.port, myCall |-> f.callTo,
                                         theirCall |-> f.callFrom, inFlight |-> 0,
                                         closes |-> 0, handed |-> <<>>], f, id))
                    /\ routerClients' = routerClients \cup {<<key, Len(conns) + 1>>}
               ELSE UNCHANGED <<routerClients, conns, connectionEvents>>
    /\ UNCHANGED <<recvBuffer, reading, pushed, arrived, lastFrame, object, bytes,
                   decoded, sent, delivered, header, headerLength, data, emitted,
                   failed, tvars, avars, svars>>

\* The 'close' listener of Router.emitFrameFromAGW: delete that.clients[key].
onClientClose(clients, key) == {c \in clients : c[1] # key}

\* The key under which the router made client c.
keyOf(c) == <<conns[c].port, conns[c].theirCall, conns[c].myCall>>

\* The ConnectionThrottle at a key is destroyed and emits 'close'
\* (ConnectionThrottle.onFrameFromAGW, case 'd': this.destroy();
\* this.emit('close')): the listener deletes the router's entry.  The
\* stream's own 'close', which destroy() emits on a later tick, is
\* outstanding.
RouterClientClose(key) ==
    /\ clientAt(key) # 0
    /\ conns[clientAt(key)].closes = 0
    /\ routerClients' = onClientClose(routerClients, key)
    /\ conns' = [conns EXCEPT ![clientAt(key)].closes = 1]
    /\ UNCHANGED <<inbound, portRouter, connectionEvents, portQueries,
                   recvBuffer, reading, pushed,
                   arrived, lastFrame, object, bytes, decoded, sent, delivered,
                   header, headerLength, data, emitted, failed, tvars, avars,
                   svars>>

\* The destroyed ConnectionThrottle emits the 'close' of destroy(): the
\* same listener runs again, with the key of that client.
RouterClientCloseAgain(c) ==
    /\ c \in 1..Len(conns)
    /\ conns[c].closes = 1
    /\ routerClients' = onClientClose(routerClients, keyOf(c))
    /\ conns' = [conns EXCEPT ![c].closes = 2]
    /\ UNCHANGED <<inbound, portRouter, connectionEvents, portQueries,
                   recvBuffer, reading, pushed,
                   arrived, lastFrame, object, bytes, decoded, sent, delivered,
                   header, headerLength, data, emitted, failed, tvars, avars,
                   svars>>

\* The routers right after construction.
InitRouter ==
    /\ inbound = <<>>
    /\ portRouter = {}
    /\ routerClients = {}
    /\ conns = <<>>
    /\ connectionEvents = 0
    /\ portQueries = <<>>

\* A RawSocket right after construction.
InitRaw ==
    /\ recvBuffer = <<>>
    /\ reading = FALSE
    /\ pushed = <<>>
    /\ arrived = 0
    /\ lastFrame = NoFrame
    /\ InitRouter

\* No codec and no RawSocket at work.
IdleCodec ==
    /\ object = NoObject
    /\ bytes = null
    /\ decoded = NoObject
    /\ InitRaw

\* The header the TNC sends for its n-th frame, with the given payload length:
\* port n, kind 'D', PID 0xF0, call signs "A" and "B".
HeaderOf(n, length) ==
    [i \in 1..HeaderLength |->
        CASE i = 1 -> n
          [] i = 5 -> 68
          [] i = 7 -> 240
          [] i = 9 -> 65
          [] i = 19 -> 66
          [] i = 29 -> length
          [] OTHER -> 0]

PayloadOf(n, length) == [i \in 1..length |-> 100 + 50 * n + i]

\* The frame object that the n-th frame stands for.
FrameOf(n, length) ==
    [port |-> n, dataKind |-> 68, PID |-> 240, callFrom |-> <<65>>,
     callTo |-> <<66>>, user |-> 0, data |-> PayloadOf(n, length)]

\* The bytes of the frames n..Len(lengths), as the TNC serializes them.
RECURSIVE StreamFrom(_, _)
StreamFrom(lengths, n) ==
    IF n > Len(lengths) THEN <<>>
    ELSE HeaderOf(n, lengths[n]) \o PayloadOf(n, lengths[n])
             \o StreamFrom(lengths, n + 1)

Stream == StreamFrom(sent, 1)

ThisReceiver ==
    [header |-> header, headerLength |-> headerLength, data |-> data,
     emitted |-> emitted, failed |-> failed]

BecomeReceiver(r) ==
    /\ header' = r.header
    /\ headerLength' = r.headerLength
    /\ data' = r.data
    /\ emitted' = r.emitted
    /\ failed' = r.failed

\* The while loop of Receiver._write.  EmptyBuffer is not defined in guts.js:
\* evaluating it throws a ReferenceError, which _write catches.
RECURSIVE receiverLoop(_)
receiverLoop(r) ==
    IF r.headerLength < HeaderLength THEN r
    ELSE LET dataLength == readUInt32LE(r.header, 28)
             bufferLength == IF r.data # null THEN Len(r.data) ELSE 0
         IN IF bufferLength < dataLength THEN r
            ELSE IF dataLength <= 0 THEN [r EXCEPT !.failed = TRUE]
            ELSE LET payload == IF dataLength = Len(r.data) THEN r.data
                                ELSE copyBuffer(r.data, 0, dataLength)
                     result == [port |-> fromHeader(r.header).port,
                                dataKind |-> fromHeader(r.header).dataKind,
                                PID |-> fromHeader(r.header).PID,
                                callFrom |-> fromHeader(r.header).callFrom,
                                callTo |-> fromHeader(r.header).callTo,
                                user |-> fromHeader(r.header).user,
                                data |-> payload]
                     newHeaderLength == Min(HeaderLength, bufferLength - dataLength)
                     newHeader == IF newHeaderLength > 0
                                  THEN copy(r.data, r.header, 0, dataLength,
                                            dataLength + newHeaderLength)
                                  ELSE r.header
                     newBufferLength == bufferLength - (dataLength + newHeaderLength)
                     newData == IF newBufferLength <= 0 THEN null
                                ELSE copyBuffer(r.data, dataLength + newHeaderLength,
                                                Len(r.data))
                 IN receiverLoop([r EXCEPT !.header = newHeader,
                                           !.headerLength = newHeaderLength,
                                           !.data = newData,
                                           !.emitted = Append(@, result)])

\* Receiver._write(chunk, encoding, afterTransform)
receiverWrite(r, chunk) ==
    IF r.data # null
    THEN receiverLoop([r EXCEPT !.data = copy(chunk,
                                    copy(r.data, alloc(Len(r.data) + Len(chunk)),
                                         0, 0, Len(r.data)),
                                    Len(r.data), 0, Len(chunk))])
    ELSE LET headerSlice == Min(HeaderLength - r.headerLength, Len(chunk))
             r1 == IF headerSlice > 0
                   THEN [r EXCEPT !.header = copy(chunk, @, r.headerLength, 0,
                                                  headerSlice),
                                  !.headerLength = @ + headerSlice]
                   ELSE r
             r2 == IF headerSlice < Len(chunk)
                   THEN [r1 EXCEPT !.data = copyBuffer(chunk, headerSlice, Len(chunk))]
                   ELSE r1
         IN receiverLoop(r2)

\* The socket delivers the next chunk of the stream; a stream that has
\* failed is destroyed and takes no more chunks.
ReceiverWrite ==
    /\ ~failed
    /\ delivered < Len(Stream)
    /\ \E length \in ChunkLengths :
          LET last == Min(delivered + length, Len(Stream))
          IN /\ BecomeReceiver(receiverWrite(ThisReceiver,
                                              SubSeq(Stream, delivered + 1, last)))
             /\ delivered' = last
    /\ UNCHANGED <<sent, tvars, avars, svars, kvars>>

\* A Receiver right after construction.
InitReceiver ==
    /\ delivered = 0
    /\ header = alloc(HeaderLength)
    /\ headerLength = 0
    /\ data = null
    /\ emitted = <<>>
    /\ failed = FALSE

IdleReceiver == sent = <<>> /\ InitReceiver /\ IdleCodec

(***************************************************************************)
(* Server, PortRouter and ConnectionRouter (server.js 1305-1481,           *)
(* 1954-2079): the socket, the Receiver and the clients of the routers.     *)
(***************************************************************************)
Ports == 0..MaxPort
Peers == {"W1AW", "K1AA"}
Keys == Ports \X Peers

\* The Connections that are open.
OpenConnections == {k \in Keys : connections[k] = "open"}

\* Values a function returns or throws.
Return(value) == [ok |-> TRUE, value |-> value]
Throw(code) == [ok |-> FALSE, code |-> code]

\* this.ports before validatePorts or setPorts has set it.
undefined == <<-1>>

\* options.host of a listen() call: a call sign, or "" when it is missing.
N0CALL == <<"N", "0", "C", "A", "L", "L">>

HostOptions == {N0CALL, <<"k", "1", "a", "a">>, <<>>}

\* options.port of a listen() call: <<>> when it is missing, else <<port>>.
PortOptions == {<<>>, <<MaxPort>>, <<256>>}

\* Strings are sequences of characters.
LowerCase ==
    <<"a", "b", "c", "d", "e", "f", "g", "h", "i", "j", "k", "l", "m",
      "n", "o", "p", "q", "r", "s", "t", "u", "v", "w", "x", "y", "z">>

UpperCase ==
    <<"A", "B", "C", "D", "E", "F", "G", "H", "I", "J", "K", "L", "M",
      "N", "O", "P", "Q", "R", "S", "T", "U", "V", "W", "X", "Y", "Z">>

Digits == <<"0", "1", "2", "3", "4", "5", "6", "7", "8", "9">>

Elements(seq) == {seq[i] : i \in 1..Len(seq)}

\* The characters that match /[a-zA-Z0-9\/]/ and /[0-9]/.
LegalCharacters ==
    Elements(LowerCase) \cup Elements(UpperCase) \cup Elements(Digits) \cup {"/"}

DecimalDigits == Elements(Digits)

LowerCaseLetters == Elements(LowerCase)

\* The position of an element in a sequence that holds it once.
IndexIn(seq, element) == CHOOSE i \in 1..Len(seq) : seq[i] = element

\* String.toUpperCase
toUpperCase(value) ==
    [i \in 1..Len(value) |->
        IF value[i] \in LowerCaseLetters
        THEN UpperCase[IndexIn(LowerCase, value[i])]
        ELSE value[i]]

\* value.indexOf(character): -1 when value lacks it
indexOf(value, character) ==
    IF character \in Elements(value)
    THEN (CHOOSE i \in 1..Len(value) :
            /\ value[i] = character
            /\ \A j \in 1..(i - 1) : value[j] # character) - 1
    ELSE -1

\* value.substring(start, stop)
substring(value, start, stop) == SubSeq(value, start + 1, Min(stop, Len(value)))

\* value.replace(/[a-zA-Z0-9\/]/g, '')
RECURSIVE stripLegal(_)
stripLegal(value) ==
    IF value = <<>> THEN <<>>
    ELSE IF Head(value) \in LegalCharacters THEN stripLegal(Tail(value))
    ELSE <<Head(value)>> \o stripLegal(Tail(value))

\* parseInt: the digits that some string starts with, as a number
RECURSIVE leadingDigits(_, _)
leadingDigits(value, sofar) ==
    IF value = <<>> \/ Head(value) \notin DecimalDigits THEN sofar
    ELSE leadingDigits(Tail(value), 10 * sofar + (IndexIn(Digits, Head(value)) - 1))

\* parseInt(value): white space, a sign and decimal digits; <<>> stands for
\* NaN and <<n>> for the number n.
RECURSIVE parseInt(_)
parseInt(value) ==
    IF value = <<>> THEN <<>>
    ELSE IF Head(value) = " " THEN parseInt(Tail(value))
    ELSE IF Head(value) \in {"-", "+"}
    THEN IF Len(value) < 2 \/ value[2] \notin DecimalDigits THEN <<>>
         ELSE <<(IF Head(value) = "-" THEN -1 ELSE 1) * leadingDigits(Tail(value), 0)>>
    ELSE IF Head(value) \notin DecimalDigits THEN <<>>
    ELSE <<leadingDigits(value, 0)>>

\* guts.js validateCallSign(name, value); a value that is missing is <<>>.
validateCallSign(value) ==
    LET dash == indexOf(value, "-")
        stop == IF dash < 0 THEN Len(value) ELSE dash
        wrong == stripLegal(substring(value, 0, stop))
        SSID == substring(value, stop + 1, Len(value))
        n == parseInt(SSID)
    IN IF value = <<>> THEN Throw("ERR_INVALID_ARG_VALUE")
       ELSE IF stop > 6 THEN Throw("ERR_INVALID_ARG_VALUE")
       ELSE IF wrong # <<>> THEN Throw("ERR_INVALID_ARG_VALUE")
       ELSE IF stop < Len(value) - 1 /\ ~(n # <<>> /\ n[1] >= 0 /\ n[1] <= 15)
       THEN Throw("ERR_INVALID_ARG_VALUE")
       ELSE Return(toUpperCase(value))

\* validateHosts(hosts), for a single call sign
validateHosts(option) ==
    LET one == validateCallSign(option)
    IN IF one.ok THEN Return(<<one.value>>) ELSE one

\* guts.js validatePort
validatePort(port) ==
    IF ~(port >= 0 /\ port <= 255) THEN Throw("ERR_INVALID_ARG_VALUE")
    ELSE Return(port)

\* validatePorts(ports), for at most one port
validatePorts(option) ==
    IF option = <<>> THEN Return(undefined)
    ELSE IF validatePort(option[1]).ok THEN Return(<<validatePort(option[1]).value>>)
    ELSE validatePort(option[1])

NoCall ==
    [op |-> "none", wasListening |-> FALSE, valid |-> FALSE, threw |-> "none",
     changed |-> FALSE, opened |-> FALSE, destroyed |-> FALSE,
     emitted |-> FALSE, callbackError |-> FALSE]

NoAddress == [host |-> <<>>, port |-> <<>>]

NoReply == [payload |-> <<>>, error |-> FALSE, port |-> -1]

\* The 'X' frames of Server._connected: one per port and call sign.
Registrations(p, h) ==
    [i \in 1..(Len(p) * Len(h)) |->
        [port |-> p[((i - 1) \div Len(h)) + 1],
         callFrom |-> h[((i - 1) % Len(h)) + 1]]]

\* Server._connected, with this.ports = p and this.listenBuffer as given:
\* postpone, or report that there are no ports, or call back, emit
\* 'listening' and register each call sign on each port.
Connected(p, postponed, advertised) ==
    IF p = undefined
    THEN /\ listenBuffer' = TRUE
         /\ UNCHANGED <<address, listeningLog, xFrames, xPending, enoent>>
    ELSE IF Len(p) <= 0
    THEN /\ enoent' = enoent \cup {"The TNC has no ports."}
         /\ listenBuffer' = postponed
         /\ UNCHANGED <<address, listeningLog, xFrames, xPending>>
    ELSE /\ address' = [host |-> hosts, port |-> p]
         /\ listeningLog' = Append(listeningLog,
                [host |-> hosts, port |-> p,
                 listening |-> listening, afterG |-> advertised,
                 asked |-> own.ports])
         /\ xFrames' = xFrames \o Registrations(p, hosts)
         /\ xPending' = xPending \o Registrations(p, hosts)
         /\ listenBuffer' = postponed
         /\ UNCHANGED enoent

\* validateHosts(options.host), for each host option
validatedHost == [option \in HostOptions |-> validateHosts(option)]

\* A listen() that opens a socket although the server is listening.
listenThrowsUnlessListening(h, p, isListening) ==
    IF ~h.ok THEN h.code
    ELSE IF ~p.ok THEN p.code
    ELSE "none"

\* What Server.listen throws, given the results of validateHosts and
\* validatePorts and this.listening: "none" when it throws nothing.
listenThrows(h, p, isListening) ==
    IF ~h.ok THEN h.code
    ELSE IF ~p.ok THEN p.code
    ELSE IF isListening THEN "ERR_SERVER_ALREADY_LISTEN"
    ELSE "none"

\* Server.listen(options, callback): validate, refuse when listening, else
\* createConnection and the listeners on the new socket.  The application
\* calls it with valid options on a server that is not listening only when
\* no earlier socket is alive.
Listen(hostOption, portOption) ==
    LET h == validatedHost[hostOption]
        p == validatePorts(portOption)
        threw == listenThrows(h, p, listening)
        newHosts == IF h.ok THEN h.value ELSE hosts
        newPorts == IF h.ok /\ p.ok THEN p.value ELSE ports
    IN /\ (h.ok /\ p.ok /\ ~listening) => socket \in {"none", "closed"}
       /\ threw = "none" => listens < MaxListens
       /\ hosts' = newHosts
       /\ ports' = newPorts
       /\ lastCall' = [NoCall EXCEPT
             !.op = "listen", !.wasListening = listening,
             !.valid = h.ok /\ p.ok, !.threw = threw,
             !.changed = threw # "none" /\ (newHosts # hosts \/ newPorts # ports),
             !.opened = threw = "none"]
       /\ IF threw = "none"
          THEN /\ listening' = TRUE
               /\ socket' = "connecting"
               /\ listens' = listens + 1
               /\ own' = [hosts |-> newHosts, ports |-> newPorts]
               /\ gPending' = 0
               /\ gReplied' = undefined
               /\ xPending' = <<>>
               /\ xFrames' = <<>>
               /\ listeningLog' = <<>>
               /\ enoent' = {}
               /\ lastX' = NoReply
          ELSE UNCHANGED <<listening, socket, listens, own, gPending, gReplied,
                           xPending, xFrames, listeningLog, enoent, lastX>>
       /\ UNCHANGED <<serverSocket, fromAGW, portClients, throttles, connections,
                      connEvents, serverEvents, owed, listenBuffer, address,
                      tvars, avars, rvars>>

\* connectionListener: the socket is piped to the Receiver, the Sender to
\* the socket, Server.socket is set, a 'G' query is written and
\* Server._connected is called.
Connect ==
    /\ socket = "connecting"
    /\ socket' = "open"
    /\ serverSocket' = TRUE
    /\ gPending' = gPending + 1
    /\ Connected(ports, listenBuffer, gReplied)
    /\ UNCHANGED <<listening, fromAGW, portClients, throttles, connections,
                   connEvents, serverEvents, owed, hosts, ports, listens, own,
                   gReplied, lastCall, lastX, tvars, avars, rvars>>

\* A 'G' reply arrives, advertising n ports: Router.emitFrameFromAGW of the
\* PortRouter makes a PortThrottle for the frame's port 0 unless it has one,
\* PortRouter.onFrameFromAGW writes a 'g' query per port and calls
\* Server.setPorts, which runs a postponed Server._connected.
GReply(n) ==
    LET advertised == [i \in 1..n |-> i - 1]
    IN /\ socket = "open"
       /\ fromAGW = "open"
       /\ gPending > 0
       /\ gPending' = gPending - 1
       /\ gReplied' = advertised
       /\ portClients' = [portClients EXCEPT ![0] = IF @ = "none" THEN "open" ELSE @]
       /\ ports' = advertised
       /\ IF listenBuffer
          THEN Connected(advertised, FALSE, TRUE)
          ELSE UNCHANGED <<listenBuffer, address, listeningLog, xFrames, xPending,
                           enoent>>
       /\ UNCHANGED <<listening, socket, serverSocket, fromAGW, throttles,
                      connections, connEvents, serverEvents, owed, hosts, listens,
                      own, lastCall, lastX, tvars, avars, rvars>>

\* A test of the 'X' reply that accepts any first byte.
registeredAnyByte(payload) == Len(payload) > 0

\* PortRouter.onFrameFromAGW, case 'X': the reply reports success when its
\* data is present, not empty and starts with the byte 1.
registered(payload) == Len(payload) > 0 /\ payload[1] = 1

\* An 'X' reply arrives with the given payload: Router.emitFrameFromAGW of
\* the PortRouter makes a PortThrottle for the frame's port unless it has
\* one, and PortRouter.onFrameFromAGW emits ENOENT on the Server unless the
\* payload's first byte is 1.
XReply(payload) ==
    LET frame == Head(xPending)
        success == registered(payload)
    IN /\ socket = "open"
       /\ fromAGW = "open"
       /\ xPending # <<>>
       /\ xPending' = Tail(xPending)
       /\ portClients' = [portClients EXCEPT
             ![frame.port] = IF @ = "none" THEN "open" ELSE @]
       /\ enoent' = IF success THEN enoent
                    ELSE enoent \cup {"listen failed"}
       /\ lastX' = [payload |-> payload, error |-> ~success, port |-> frame.port]
       /\ UNCHANGED <<listening, socket, serverSocket, fromAGW, throttles,
                      connections, connEvents, serverEvents, owed, hosts, ports,
                      listenBuffer, address, listens, own, gPending, gReplied,
                      xFrames, listeningLog, lastCall, tvars, avars, rvars>>

\* A 'C' frame arrives: Router.emitFrameFromAGW of the PortRouter makes the
\* port's PortThrottle (PortRouter.newClient) unless it has one, and that of
\* the port's ConnectionRouter makes the throttle and the Connection
\* (ConnectionRouter.newClient); the Server emits 'connection'.
ConnectFrame(k) ==
    /\ socket = "open"
    /\ fromAGW = "open"
    /\ connections[k] = "none"
    /\ portClients[k[1]] # "destroyed"
    /\ portClients' = [portClients EXCEPT ![k[1]] = "open"]
    /\ throttles' = [throttles EXCEPT ![k] = "open"]
    /\ connections' = [connections EXCEPT ![k] = "open"]
    /\ serverEvents' = serverEvents \cup {"connection"}
    /\ UNCHANGED <<listening, socket, serverSocket, fromAGW, connEvents, owed,
                   tvars, avars, rvars, lvars>>

\* The socket emits 'error' or 'timeout': the listener of
\* Server.onErrorOrTimeout emits it on the Server.  After 'error' the socket
\* is destroyed.
SocketEvent(event) ==
    /\ socket \in {"connecting", "open"}
    /\ serverEvents' = serverEvents \cup {event}
    /\ owed' = owed \cup {<<k, event>> : k \in OpenConnections}
    /\ socket' = IF event = "error" THEN "destroyed" ELSE socket
    /\ UNCHANGED <<listening, serverSocket, fromAGW, portClients, throttles,
                   connections, connEvents, tvars, avars, rvars, lvars>>

\* The TNC closes the TCP connection: the socket emits 'end', the pipe ends
\* the Receiver, and the socket (allowHalfOpen is false) is destroyed.
RemoteEnd ==
    /\ socket = "open"
    /\ socket' = "destroyed"
    /\ fromAGW' = IF fromAGW = "open" THEN "ending" ELSE fromAGW
    /\ UNCHANGED <<listening, serverSocket, portClients, throttles, connections,
                   connEvents, serverEvents, owed, tvars, avars, rvars, lvars>>

\* The socket emits 'close': the listener of Server.listen unpipes.
SocketClose ==
    /\ socket = "destroyed"
    /\ socket' = "closed"
    /\ UNCHANGED <<listening, serverSocket, fromAGW, portClients, throttles,
                   connections, connEvents, serverEvents, owed, tvars, avars, rvars, lvars>>

\* A close() that never finds the server closed already.
alreadyClosedNever(isListening) == FALSE

\* Server.close: the test that the server is closed already.
alreadyClosed(isListening) == ~isListening

\* Server.close(callback)
ServerClose ==
    /\ lastCall' = [NoCall EXCEPT
          !.op = "close", !.wasListening = listening,
          !.destroyed = ~alreadyClosed(listening) /\ serverSocket,
          !.emitted = ~alreadyClosed(listening),
          !.callbackError = alreadyClosed(listening)]
    /\ IF alreadyClosed(listening)
       THEN UNCHANGED <<socket, serverSocket, listening, address, serverEvents>>
       ELSE /\ socket' = IF serverSocket /\ socket = "open" THEN "destroyed"
                          ELSE socket
            /\ serverSocket' = FALSE
            /\ listening' = FALSE
            /\ address' = NoAddress
            /\ serverEvents' = serverEvents \cup {"close"}
    /\ UNCHANGED <<fromAGW, portClients, throttles, connections, connEvents,
                   owed, hosts, ports, listenBuffer, listens, own, gPending,
                   gReplied, xPending, xFrames, listeningLog, enoent, lastX,
                   tvars, avars, rvars>>

\* The Receiver emits 'error' (Receiver._write caught an exception): the
\* Server emits it, the PortRouter emits it on every PortThrottle, each
\* ConnectionRouter on every ConnectionThrottle, and each of those on its
\* Connection.  The failed stream is destroyed.
ReceiverError ==
    /\ socket = "open"
    /\ fromAGW = "open"
    /\ serverEvents' = serverEvents \cup {"error"}
    /\ connEvents' = [k \in Keys |->
          IF portClients[k[1]] # "none" /\ throttles[k] # "none"
          THEN connEvents[k] \cup {"error"} ELSE connEvents[k]]
    /\ fromAGW' = "destroyed"
    /\ UNCHANGED <<listening, socket, serverSocket, portClients, throttles,
                   connections, owed, tvars, avars, rvars, lvars>>

\* The Receiver, finished or destroyed, emits 'close': the PortRouter's
\* onClose destroys every client.
ReceiverClose ==
    /\ fromAGW \in {"ending", "destroyed"}
    /\ fromAGW' = "closed"
    /\ portClients' = [p \in Ports |->
          IF portClients[p] = "open" THEN "destroyed" ELSE portClients[p]]
    /\ UNCHANGED <<listening, socket, serverSocket, throttles, connections,
                   connEvents, serverEvents, owed, tvars, avars, rvars, lvars>>

\* A destroyed PortThrottle emits 'close': the PortRouter deletes it, and
\* the onClose of its ConnectionRouter destroys every client.
PortThrottleClose(p) ==
    /\ portClients[p] = "destroyed"
    /\ portClients' = [portClients EXCEPT ![p] = "none"]
    /\ throttles' = [k \in Keys |->
          IF k[1] = p /\ throttles[k] = "open" THEN "destroyed" ELSE throttles[k]]
    /\ UNCHANGED <<listening, socket, serverSocket, fromAGW, connections,
                   connEvents, serverEvents, owed, tvars, avars, rvars, lvars>>

\* A destroyed ConnectionThrottle emits 'close': the ConnectionRouter
\* deletes it and destroys its Connection (Connection._destroy), which
\* emits 'end' and 'close'.
ConnectionThrottleClose(k) ==
    /\ throttles[k] = "destroyed"
    /\ throttles' = [throttles EXCEPT ![k] = "none"]
    /\ connections' = [connections EXCEPT ![k] = "closed"]
    /\ connEvents' = [connEvents EXCEPT ![k] = @ \cup {"end", "close"}]
    /\ UNCHANGED <<listening, socket, serverSocket, fromAGW, portClients,
                   serverEvents, owed, tvars, avars, rvars, lvars>>

\* A Server right after construction.
InitServer ==
    /\ listening = FALSE
    /\ socket = "none"
    /\ serverSocket = FALSE
    /\ fromAGW = "open"
    /\ portClients = [p \in Ports |-> "none"]
    /\ throttles = [k \in Keys |-> "none"]
    /\ connections = [k \in Keys |-> "none"]
    /\ connEvents = [k \in Keys |-> {}]
    /\ serverEvents = {}
    /\ owed = {}
    /\ hosts = <<>>
    /\ ports = undefined
    /\ listenBuffer = FALSE
    /\ address = NoAddress
    /\ listens = 0
    /\ own = [hosts |-> <<>>, ports |-> undefined]
    /\ gPending = 0
    /\ gReplied = undefined
    /\ xPending = <<>>
    /\ xFrames = <<>>
    /\ listeningLog = <<>>
    /\ enoent = {}
    /\ lastCall = NoCall
    /\ lastX = NoReply

IdleServer == InitServer

(***************************************************************************)
(* The throttle right after PortRouter.newClient / ConnectionRouter        *)
(* .newClient: constructed, piped, and its first in-flight query written   *)
(* and pushed.                                                             *)
(***************************************************************************)
InitThrottle ==
    /\ wq = <<>> /\ written = <<>>
    /\ writing = FALSE /\ ending = FALSE /\ flushed = FALSE
    /\ finished = FALSE /\ destroyed = FALSE
    /\ buffer = <<>>
    /\ inFlight = 0
    /\ maxInFlight = MaxFramesInFlight
    /\ polling = FALSE
    /\ timers = 0
    /\ callbacks = <<>>
    /\ disconnected = FALSE
    /\ out = <<>>
    /\ sinceReply = 0
    /\ replies = <<0>>
    /\ tncCount = 0
    /\ dSentWith = -1
    /\ overrun = FALSE
    /\ ended = FALSE /\ closed = FALSE /\ pushable = FALSE
    /\ events = <<>>
    /\ received = <<>>
    /\ backpressure = FALSE
    /\ lastD = NoData

\* A throttle that takes no part.
IdleThrottle ==
    /\ cls = "conn"
    /\ ID = FALSE
    /\ tnc = "any"
    /\ InitThrottle

(***************************************************************************)
(* Spec: flow control of a port or connection throttle against a TNC whose *)
(* in-flight replies carry any value.                                      *)
(***************************************************************************)
Init ==
    /\ cls \in {"port", "conn"}
    /\ ID \in (IF cls = "conn" THEN BOOLEAN ELSE {FALSE})
    /\ tnc = "any"
    /\ InitThrottle
    /\ IdleAssembler
    /\ IdleReceiver
    /\ IdleServer

Next ==
    \/ Write(MaxWrites)
    \/ Transform
    \/ End
    \/ Flush
    \/ Close
    \/ Reply
    \/ PollTick

Spec == Init /\ [][Next]_vars

\* The code's own scheduling (pending stream steps run, the poll timer
\* fires) and a TNC that answers queries, time and again with the count 0.
FairSpec ==
    /\ Spec
    /\ WF_vars(Transform)
    /\ WF_vars(Flush)
    /\ WF_vars(PollTick)
    /\ SF_vars(ReplyWith(0))

(***************************************************************************)
(* SpecDisconnect: a connection throttle against a TNC that answers each   *)
(* query with its actual count and transmits at its own pace.              *)
(***************************************************************************)
InitDisconnect ==
    /\ cls = "conn"
    /\ ID \in BOOLEAN
    /\ tnc = "honest"
    /\ InitThrottle
    /\ IdleAssembler
    /\ IdleReceiver
    /\ IdleServer

NextDisconnect ==
    \/ Write(MaxDrainWrites)
    \/ Transform
    \/ End
    \/ Flush
    \/ Close
    \/ Reply
    \/ PollTick
    \/ Transmit
    \/ ReceiveDisconnect

SpecDisconnect == InitDisconnect /\ [][NextDisconnect]_vars

(***************************************************************************)
(* SpecConnection: a connection, its throttle and the frames the TNC sends *)
(* to it.                                                                  *)
(***************************************************************************)
InitConnection ==
    /\ cls = "conn"
    /\ ID \in BOOLEAN
    /\ tnc = "any"
    /\ InitThrottle
    /\ IdleAssembler
    /\ IdleReceiver
    /\ IdleServer

NextConnection ==
    \/ Write(MaxConnWrites)
    \/ Transform
    \/ End
    \/ Flush
    \/ Close
    \/ Reply
    \/ PollTick
    \/ ReceiveDisconnect
    \/ ReceiveData
    \/ Read
    \/ Destroy

SpecConnection == InitConnection /\ [][NextConnection]_vars

\* The code's own scheduling: pending stream steps run, the poll timer fires,
\* and the TNC answers every in-flight query (with whatever value).
FairSpecConnection ==
    /\ SpecConnection
    /\ WF_vars(Transform)
    /\ WF_vars(Flush)
    /\ WF_vars(Close)
    /\ WF_vars(PollTick)
    /\ WF_vars(Reply)

(***************************************************************************)
(* SpecAssembler: chunks written to a FrameAssembler, its timer and flush. *)
(***************************************************************************)
InitAssemblerSpec ==
    /\ maxDataLength \in 1..MaxFrameLength
    /\ InitAssembler
    /\ IdleThrottle
    /\ IdleReceiver
    /\ IdleServer

NextAssembler ==
    \/ AssemblerWrite
    \/ AssemblerTimeout
    \/ AssemblerFlush

SpecAssembler == InitAssemblerSpec /\ [][NextAssembler]_vars

(***************************************************************************)
(* SpecReceiver: a stream of frames delivered to the Receiver in chunks.   *)
(***************************************************************************)
InitReceiverSpec ==
    /\ sent \in UNION {[1..n -> PayloadLengths] : n \in 1..MaxFrames}
    /\ InitReceiver
    /\ IdleCodec
    /\ IdleThrottle
    /\ IdleAssembler
    /\ IdleServer

NextReceiver == ReceiverWrite

SpecReceiver == InitReceiverSpec /\ [][NextReceiver]_vars

(***************************************************************************)
(* SpecServer: the Server, its socket and the clients of its routers.      *)
(***************************************************************************)
InitServerSpec ==
    /\ InitServer
    /\ IdleThrottle
    /\ IdleAssembler
    /\ IdleReceiver

\* The application listens once, for N0CALL on port 0.
ListenOnce ==
    /\ ~listening
    /\ listens = 0
    /\ Listen(N0CALL, <<MaxPort>>)

NextServer ==
    \/ ListenOnce
    \/ Connect
    \/ \E k \in Keys : ConnectFrame(k)
    \/ \E event \in {"error", "timeout"} : SocketEvent(event)
    \/ RemoteEnd
    \/ SocketClose
    \/ ServerClose
    \/ ReceiverError
    \/ ReceiverClose
    \/ \E p \in Ports : PortThrottleClose(p)
    \/ \E k \in Keys : ConnectionThrottleClose(k)

SpecServer == InitServerSpec /\ [][NextServer]_vars

\* Every event that a stream owes is emitted.
FairSpecServer ==
    /\ SpecServer
    /\ WF_vars(SocketClose)
    /\ WF_vars(ReceiverClose)
    /\ \A p \in Ports : WF_vars(PortThrottleClose(p))
    /\ \A k \in Keys : WF_vars(ConnectionThrottleClose(k))

\* The application calls listen and close with any options at any time,
\* and the TNC answers the 'G' and 'X' frames that the Server wrote.
NextListen ==
    \/ \E hostOption \in HostOptions, portOption \in PortOptions :
          Listen(hostOption, portOption)
    \/ Connect
    \/ \E n \in 0..(MaxPort + 1) : GReply(n)
    \/ \E payload \in {<<>>, <<0>>, <<1>>} : XReply(payload)
    \/ SocketClose
    \/ ServerClose

SpecListen == InitServerSpec /\ [][NextListen]_vars

(***************************************************************************)
(* Claims about Server.listen and Server.close.                            *)
(***************************************************************************)
\* C11: a listen() call on a Server that is listening throws and opens no
\* TCP connection; the error's code is ERR_SERVER_ALREADY_LISTEN when the
\* call's options are valid (invalid options are reported first, as
\* ERR_INVALID_ARG_VALUE).
C11_ListenWhenListening ==
    (lastCall.op = "listen" /\ lastCall.wasListening) =>
        /\ lastCall.threw # "none"
        /\ ~lastCall.opened
        /\ lastCall.valid => lastCall.threw = "ERR_SERVER_ALREADY_LISTEN"

\* C11 as stated: every listen() call on a Server that is listening throws
\* ERR_SERVER_ALREADY_LISTEN and opens no TCP connection.
C11_AlwaysAlreadyListen ==
    (lastCall.op = "listen" /\ lastCall.wasListening) =>
        /\ lastCall.threw = "ERR_SERVER_ALREADY_LISTEN"
        /\ ~lastCall.opened

\* C11 witness: listen() with valid options was called while the first
\* connection was open, and threw ERR_SERVER_ALREADY_LISTEN.
C11_Witness ==
    /\ lastCall.op = "listen"
    /\ lastCall.wasListening
    /\ lastCall.valid
    /\ lastCall.threw = "ERR_SERVER_ALREADY_LISTEN"
    /\ socket = "open"
    /\ listens = 1

\* C12: a listen() call that throws leaves the listening flag, the
\* validated call signs and the selected ports as they were before the
\* call, so that a listen in progress registers its own call signs on its
\* own ports.
C12_ThrowingListenChangesNothing ==
    /\ (lastCall.op = "listen" /\ lastCall.threw # "none") => ~lastCall.changed
    /\ listening =>
          \A i \in 1..Len(xFrames) :
              /\ xFrames[i].callFrom = own.hosts[1]
              /\ own.ports # undefined => xFrames[i].port = own.ports[1]

\* C13: close() on a Server that is not listening calls back with an error,
\* emits no 'close' event, destroys no socket and changes no state.
C13_CloseWhenClosed ==
    [][(~listening /\ ServerClose) =>
          /\ lastCall'.callbackError
          /\ ~lastCall'.emitted
          /\ ~lastCall'.destroyed
          /\ UNCHANGED <<listening, socket, serverSocket, serverEvents, address,
                         hosts, ports, listenBuffer, fromAGW, portClients>>]_vars

\* C13 witness: close() was called on a Server that was not listening, while
\* the socket of an earlier listen() was still open, and called back with an
\* error.
C13_Witness ==
    /\ lastCall.op = "close"
    /\ ~lastCall.wasListening
    /\ lastCall.callbackError
    /\ ~listening
    /\ socket = "open"
    /\ serverSocket

\* C14: a close() that follows a listen(), at whatever point it is called,
\* destroys the TCP socket that the listen() opened and emits 'close' once.
C14_CloseDestroysSocket ==
    (lastCall.op = "close" /\ lastCall.wasListening) =>
        /\ lastCall.emitted
        /\ lastCall.destroyed
        /\ socket \in {"destroyed", "closed"}

\* C15: while a listen() without a port option is in progress, 'listening'
\* is emitted only after the 'G' reply, at most once, with the address's
\* ports equal to the advertised ports 0..N-1, and the 'X' frames written
\* are one per advertised port and call sign of the listen().
C15_ListenToAllPorts ==
    (listening /\ own.ports = undefined) =>
        /\ Len(listeningLog) <= 1
        /\ \A i \in 1..Len(listeningLog) :
              /\ listeningLog[i].afterG # undefined
              /\ listeningLog[i].port = listeningLog[i].afterG
              /\ xFrames = Registrations(listeningLog[i].afterG, own.hosts)
        /\ listeningLog = <<>> => xFrames = <<>>

\* C16: when a listen() without a port option is in progress and the 'G'
\* reply advertised no ports, an ENOENT error has been emitted, no
\* 'listening' event has been emitted and no 'X' frame has been written.
C16_NoPorts ==
    (listening /\ own.ports = undefined /\ gReplied = <<>>) =>
        /\ "The TNC has no ports." \in enoent
        /\ listeningLog = <<>>
        /\ xFrames = <<>>

C18_ListeningWhenEmitted ==
    \A i \in 1..Len(listeningLog) : listeningLog[i].listening

(***************************************************************************)
(* Claims about the readable side of a Connection.                         *)
(***************************************************************************)
\* C19: an inbound 'D' frame for an open Connection raises 'receive buffer
\* overflow' exactly when a preceding push signalled backpressure and _read
\* has not run since; otherwise its data is pushed.
C19_OverflowIffBackpressure ==
    (lastD # NoData /\ ~lastD.closed) =>
        /\ lastD.result = "receive buffer overflow" <=> lastD.backpressure
        /\ ~lastD.backpressure => lastD.result = "data"

\* C20: an inbound 'D' frame that reaches a Connection closed locally makes
\* it emit the error 'received data after close' and delivers no data.
C20_DataAfterClose ==
    (lastD # NoData /\ lastD.closed) =>
        /\ lastD.result = "received data after close"
        /\ events # <<>>
        /\ events[Len(events)] # "data"

\* C20 witness: the application destroyed the Connection; a 'D' frame then
\* reached it through the throttle, which was still open, and raised
\* 'received data after close'.
C20_Witness ==
    /\ closed
    /\ lastD.closed
    /\ lastD.result = "received data after close"
    /\ events[Len(events)] = "error"
    /\ "close" \in {events[i] : i \in 1..Len(events)}

(***************************************************************************)
(* SpecCallSign: validateCallSign is applied to a string made of a base    *)
(* and of what follows the base.                                           *)
(***************************************************************************)
\* Bases: empty, of 1, 6 and 7 characters, with a slash, with a character
\* that is not legal.
CallSignBases ==
    {<<>>, <<"a">>, N0CALL, <<"k", "1", "a", "a", "/", "p">>,
     N0CALL \o <<"S">>, <<"W", "*">>, <<"w", " ", "1">>}

\* What follows the base: nothing, or a dash and an SSID that is a number
\* within or beyond 0..15, empty, not numeric or partly numeric.
CallSignSuffixes ==
    {<<>>, <<"-">>, <<"-", "0">>, <<"-", "7">>, <<"-", "1", "5">>,
     <<"-", "1", "6">>, <<"-", "1", "x">>, <<"-", "x">>,
     <<"-", "1", "-", "2">>, <<"-", "-", "1">>}

NoResult == [ok |-> FALSE, code |-> "none"]

\* validateCallSign(name, value)
ValidateCallSign ==
    /\ decoded = NoResult
    /\ decoded' = validateCallSign(object.base \o object.suffix)
    /\ UNCHANGED <<object, bytes, sent, delivered, header, headerLength, data,
                   emitted, failed, tvars, avars, svars, wvars>>

InitCallSign ==
    /\ object \in [base : CallSignBases, suffix : CallSignSuffixes]
    /\ bytes = null
    /\ decoded = NoResult
    /\ InitRaw
    /\ sent = <<>>
    /\ InitReceiver
    /\ IdleThrottle
    /\ IdleAssembler
    /\ IdleServer

NextCallSign == ValidateCallSign

SpecCallSign == InitCallSign /\ [][NextCallSign]_vars

(***************************************************************************)
(* SpecRaw: frames reach a RawSocket, whose reader asks for packets when   *)
(* it pleases.                                                             *)
(***************************************************************************)
InitRawSpec ==
    /\ IdleCodec
    /\ sent = <<>>
    /\ InitReceiver
    /\ IdleThrottle
    /\ IdleAssembler
    /\ IdleServer

NextRaw ==
    \/ \E kind \in {"K", "T"} : RawFrame(kind)
    \/ RawRead

SpecRaw == InitRawSpec /\ [][NextRaw]_vars

(***************************************************************************)
(* SpecRouter: frames arrive at the routers, and connection clients close. *)
(***************************************************************************)
InitRouterSpec == InitRawSpec

NextRouter ==
    \/ \E f \in RoutedFrames : RouteFrame(f)
    \/ \E f \in RoutedFrames : RouterClientClose(getKey(f))
    \/ \E c \in 1..MaxRouted : RouterClientCloseAgain(c)

SpecRouter == InitRouterSpec /\ [][NextRouter]_vars

(***************************************************************************)
(* SpecCodec: a frame object is encoded by toFrame and the buffer decoded  *)
(* by fromHeader.                                                          *)
(***************************************************************************)
InitCodec ==
    /\ object \in FrameObjects
    /\ bytes = null
    /\ decoded = NoObject
    /\ InitRaw
    /\ sent = <<>>
    /\ InitReceiver
    /\ IdleThrottle
    /\ IdleAssembler
    /\ IdleServer

NextCodec ==
    \/ Encode
    \/ Decode

SpecCodec == InitCodec /\ [][NextCodec]_vars

(***************************************************************************)
(* SpecPacket: an AX.25 packet is encoded by encodePacket and the buffer   *)
(* decoded by decodePacket.                                                *)
(***************************************************************************)
InitPacket ==
    /\ object \in Packets
    /\ bytes = null
    /\ decoded = NoPacket
    /\ InitRaw
    /\ sent = <<>>
    /\ InitReceiver
    /\ IdleThrottle
    /\ IdleAssembler
    /\ IdleServer

NextPacket ==
    \/ EncodePacket
    \/ DecodePacket

SpecPacket == InitPacket /\ [][NextPacket]_vars

(***************************************************************************)
(* Claims about the throttle.                                              *)
(***************************************************************************)
Kinds(seq) == {seq[i].kind : i \in 1..Len(seq)}
Range(seq) == {seq[i] : i \in 1..Len(seq)}
Positions(seq, kind) == {i \in 1..Len(seq) : seq[i].kind = kind}

\* C1: a data-bearing frame (D, K, M, V) is pushed only when inFlight <
\* maxInFlight just before the push, so that inFlight <= maxInFlight right
\* after it, and at most MaxFramesInFlight data-bearing frames are pushed
\* between two consecutive in-flight replies.
C1_PushBelowMax ==
    /\ ~overrun
    /\ sinceReply <= MaxFramesInFlight

\* C1 witness: eight data frames were pushed since the last reply, inFlight
\* has reached maxInFlight and the next data frame waits in the buffer.
C1_Witness ==
    /\ sinceReply = MaxFramesInFlight
    /\ inFlight = maxInFlight
    /\ buffer # <<>>
    /\ Head(buffer).kind \in DataKinds
    /\ polling

\* C2 (as claimed): the 'd' of an outbound close is pushed only when the TNC
\* holds no 'D' frame of the connection that it has not transmitted.
C2_DisconnectAfterDrain == dSentWith \in {-1, 0}

\* C3: after end() on a connection throttle that has received no 'd', the
\* 'd' frame is pushed after every 'D' frame written, and before the 'M' ID
\* frame; no 'D' frame is pushed after the 'd'.
C3_DisconnectOrder ==
    /\ \A i \in Positions(out, "d") :
          /\ Range(written) \subseteq {out[j] : j \in 1..(i - 1)}
          /\ \A j \in Positions(out, "D") : j < i
          /\ \A j \in Positions(out, "M") : j > i
    /\ ("M" \in Kinds(out) /\ received = <<>>) => "d" \in Kinds(out)

\* C3 witness: two 'D' frames, then 'd', then the ID frame have been pushed.
C3_Witness ==
    /\ Len(written) >= 2
    /\ received = <<>>
    /\ out = written \o <<Frame("d", 0), Frame("M", 0)>>

\* C7: the frames written leave the throttle in the order written, each once
\* and unaltered; besides in-flight queries the throttle adds only the final
\* frames of end(), after the last written frame.
C7_WrittenOrder ==
    LET n == Cardinality({i \in 1..Len(out) : out[i].seq > 0})
    IN /\ n <= Len(written)
       /\ SubSeq(out, 1, n) = SubSeq(written, 1, n)
       /\ Len(out) > n =>
             /\ n = Len(written)
             /\ flushed
             /\ \A i \in (n + 1)..Len(out) : out[i] \in {Frame("d", 0), Frame("M", 0)}

\* C7 witness: every one of at least five written frames has been pushed,
\* with a look-ahead query pushed among them.
C7_Witness ==
    /\ Len(written) >= 5
    /\ Len(out) >= Len(written)
    /\ SubSeq(out, 1, Len(written)) = written
    /\ Len(replies) >= 2

(***************************************************************************)
(* Claims about the Connection.                                            *)
(***************************************************************************)
\* C6 (as claimed): once the Connection has emitted 'end' for a 'd' frame, no
\* later 'D' frame makes it emit data.
C6_NoDataAfterEnd ==
    \A i, j \in 1..Len(events) :
        (events[i] = "end" /\ events[j] = "data") => j < i

\* C8 (as claimed): after a 'd' frame from the TNC the Connection is
\* eventually destroyed and emits 'close', also when frames wait in its
\* throttle for inFlight to drop.
C8_DisconnectLeadsToClose ==
    ("d" \in {received[i] : i \in 1..Len(received)}) ~> closed

\* C21: with an ID configured, the throttle of a connection pushes one 'M'
\* frame over the connection's lifetime, and only after a 'd' frame has been
\* pushed or received.
C21_OneIDAfterDisconnect ==
    ID =>
        /\ Cardinality(Positions(out, "M")) <= 1
        /\ \A i \in Positions(out, "M") :
              \/ \E j \in Positions(out, "d") : j < i
              \/ "d" \in Range(received)
        /\ destroyed => Cardinality(Positions(out, "M")) = 1

\* C22: a Connection emits 'end' once and 'close' once over its lifetime,
\* 'end' before 'close', whatever end() and destroy() calls and inbound 'd'
\* frames occur.
C22_EndAndCloseOnce ==
    LET ends == {i \in 1..Len(events) : events[i] = "end"}
        closes == {i \in 1..Len(events) : events[i] = "close"}
    IN /\ Cardinality(ends) <= 1
       /\ Cardinality(closes) <= 1
       /\ \A i \in ends, j \in closes : i < j
       /\ closed => (Cardinality(ends) = 1 /\ Cardinality(closes) = 1)

\* C23: once the application has destroyed the Connection, no 'D' frame is
\* pushed toward the TNC: the writes still pending are dropped.
C23_DestroyDropsWrites ==
    [][(closed /\ ~destroyed) => Positions(out', "D") = Positions(out, "D")]_vars

\* C28: the ConnectionRouter holds the client of a connection (its
\* ConnectionThrottle, until that emits 'close') if and only if the
\* Connection has not emitted 'close'.
C28_EntryIffNotClosed ==
    cls = "conn" => (~destroyed <=> ~closed)

\* C30: once the ConnectionThrottle has received a 'd' frame, it pushes no
\* 'D' frame toward the TNC: those in its buffer are discarded.
C30_NoDataAfterDisconnect ==
    [][(cls = "conn" /\ "d" \in Range(received))
          => Positions(out', "D") = Positions(out, "D")]_vars

\* C39: once the throttle is destroyed and has emitted 'close', its poll
\* timer is not armed, and it pushes no further frame or query.
C39_NoPollAfterClose ==
    /\ [](destroyed => (~polling /\ timers = 0))
    /\ [][destroyed => (out' = out /\ Len(replies') <= Len(replies))]_vars

\* C40: a ConnectionThrottle that has received a 'd' frame from the TNC
\* pushes no 'd' frame afterwards, also when end() had queued its 'd' before
\* the TNC's 'd' arrived.
C40_NoDisconnectAfterDisconnect ==
    [][(cls = "conn" /\ "d" \in Range(received))
          => Positions(out', "d") = Positions(out, "d")]_vars

\* The frame at the head of the buffer waits for inFlight to fall.
HeadBlocked ==
    /\ buffer # <<>>
    /\ ~IsFunction(Head(buffer))
    /\ inFlight >= maxInFlight

\* C33: the poll timer is armed only while the frame at the head of the
\* buffer is blocked by inFlight >= maxInFlight; at most one timer is set at
\* any time, and it is the one this.polling holds; a tick pushes one
\* in-flight query and no other frame; the timer is cleared once the buffer
\* has been pushed out or the end-of-stream callback has run.
C33_PollTimer ==
    /\ [](/\ timers <= 1
          /\ polling <=> timers = 1
          /\ polling => HeadBlocked
          /\ (buffer = <<>> \/ finished) => ~polling)
    /\ [][PollTick =>
             /\ Len(replies') = Len(replies) + 1
             /\ out' = out
             /\ buffer' = buffer
             /\ polling' /\ timers' = timers]_vars

\* C33 witness: a frame was pushed, the next one is blocked, the timer is
\* armed and its tick has pushed a query that the TNC has not answered.
C33_Witness ==
    /\ polling
    /\ timers = 1
    /\ HeadBlocked
    /\ out # <<>>
    /\ replies # <<>>

\* The numbers of the written frames that have been pushed downstream.
Pushed == {out[i].seq : i \in 1..Len(out)} \ {0}

\* C35: the callback of each written frame is called once, and only after
\* the frame has been pushed downstream, and it is called once the frame is
\* pushed; while a frame is blocked by inFlight >= maxInFlight, neither its
\* callback nor that of a later write has been called.
C35_CallbackAfterPush ==
    /\ \A m, n \in 1..Len(callbacks) : m # n => callbacks[m] # callbacks[n]
    /\ Elements(callbacks) = Pushed
    /\ HeadBlocked =>
          \A n \in Elements(callbacks) : n < Head(buffer).seq \/ Head(buffer).seq = 0
    /\ (HeadBlocked /\ Head(buffer).seq # 0) => writing

\* C35 witness: the callback of the first write has been called, the frame
\* of the second is blocked and the writer is waiting for its callback.
C35_Witness ==
    /\ HeadBlocked
    /\ Head(buffer).seq = 2
    /\ callbacks = <<1>>
    /\ writing
    /\ wq # <<>>

\* C36: a frame that stays in the buffer has a poll timer armed; and if the
\* TNC keeps answering queries, time and again with a count below
\* maxInFlight, then every frame written is pushed, and after end() the 'd'
\* frame of a connection is pushed and the end-of-stream callback runs.
C36_NoDeadlock ==
    /\ [](buffer # <<>> => (polling /\ HeadBlocked))
    /\ [](Pushed \cup {wq[i].seq : i \in 1..Len(wq)}
             \cup ({buffer[i].seq : i \in 1..Len(buffer)} \ {0})
          = 1..Len(written))
    /\ []<>(wq = <<>> /\ buffer = <<>>)
    /\ (ending /\ cls = "conn") ~> (Positions(out, "d") # {})
    /\ ending ~> finished

\* C36 witness: after end(), with written frames waiting and the timer
\* armed, the 'd' frame has been pushed and the callback has run.
C36_Witness ==
    /\ cls = "conn"
    /\ finished
    /\ Positions(out, "d") # {}
    /\ Len(written) >= 2
    /\ Pushed = 1..Len(written)
    /\ \E n \in 1..Len(callbacks) : callbacks[n] = 2
    /\ overrun = FALSE



(***************************************************************************)
(* Claims about the frame codec.                                           *)
(***************************************************************************)
\* The fields of a frame object that fromHeader returns.
HeaderFields(f) ==
    [port |-> f.port, dataKind |-> f.dataKind, PID |-> f.PID,
     callFrom |-> f.callFrom, callTo |-> f.callTo, user |-> f.user]

\* C24: for a frame object whose dataKind is one character of at most 8
\* bits, fromHeader(toFrame(F)) returns F's port, dataKind, PID, callFrom,
\* callTo and user; for every frame object the encoded buffer is 36 bytes
\* plus the payload, with the payload's length little-endian at offset 28.
C24_FrameRoundTrip ==
    /\ bytes # null =>
          /\ Len(bytes) = HeaderLength + Len(object.data)
          /\ readUInt32LE(bytes, 28) = Len(object.data)
    /\ (decoded # NoObject /\ object.dataKind <= 255) =>
          decoded = HeaderFields(object)

\* C24 as stated: the round trip returns the fields of every frame object
\* with a one-character dataKind.
C24_AnyCharacterRoundTrip ==
    decoded # NoObject => decoded = HeaderFields(object)

\* C24 witness: a frame with port 255, PID 0, call signs of 9 characters, a
\* user field of four bytes and a payload went through toFrame and
\* fromHeader.
C24_Witness ==
    /\ decoded = HeaderFields(object)
    /\ object.port = 255
    /\ object.PID = 0
    /\ Len(object.callFrom) = 9
    /\ Len(object.callTo) = 9
    /\ object.user = LargeCount
    /\ Len(bytes) = 39

\* C25: decodePacket(encodePacket(P)) has the type, addresses, via list,
\* command and response flags, P and F flags, NR, NS, PID and info of P, for
\* every valid packet P, supervisory frames with P or F included.
C25_PacketRoundTrip ==
    decoded # NoPacket => decoded = object

\* The call signs that are legal: a base of 1 to 6 letters, digits and
\* slashes, and then nothing or a dash and a decimal number in 0..15.
LegalCallSign(base, suffix) ==
    /\ Len(base) \in 1..6
    /\ Elements(base) \subseteq LegalCharacters
    /\ suffix \in {<<>>, <<"-", "0">>, <<"-", "7">>, <<"-", "1", "5">>}

\* C26: validateCallSign returns the upper-cased input for every legal
\* call sign and throws for every other input.
C26_ValidateCallSign ==
    decoded # NoResult =>
        IF LegalCallSign(object.base, object.suffix)
        THEN decoded = Return(toUpperCase(object.base \o object.suffix))
        ELSE ~decoded.ok

(***************************************************************************)
(* Claims about the RawSocket.                                             *)
(***************************************************************************)
\* C27: the receive buffer never holds more than recvBufferSize packets; a
\* 'K' frame that arrives while it is full is discarded; the packets
\* delivered to the reader are in arrival order, each at most once.
C27_BoundedReceiveBuffer ==
    LET all == pushed \o recvBuffer
    IN /\ Len(recvBuffer) <= RecvBufferSize
       /\ (lastFrame.kind = "K" /\ lastFrame.full) => ~lastFrame.kept
       /\ (lastFrame # NoFrame /\ ~lastFrame.kept) => lastFrame.id \notin Elements(all)
       /\ \A i, j \in 1..Len(all) : i < j => all[i] < all[j]
       /\ Elements(all) \subseteq 1..arrived

\* C27 witness: a 'K' frame arrived while the buffer held recvBufferSize
\* packets and was discarded, after an earlier packet had been delivered.
C27_Witness ==
    /\ lastFrame.kind = "K"
    /\ lastFrame.full
    /\ ~lastFrame.kept
    /\ Len(recvBuffer) = RecvBufferSize
    /\ pushed # <<>>

(***************************************************************************)
(* Claims about the routers.                                               *)
(***************************************************************************)
\* The frame belongs to the connection of the client: same port, the
\* client's remote station and its local call.
Matches(f, c) ==
    /\ f.port = c.port
    /\ IF f.kind = "Y"
       THEN f.callTo = c.theirCall /\ f.callFrom = c.myCall
       ELSE f.callFrom = c.theirCall /\ f.callTo = c.myCall

\* C29: every inbound frame whose key matches a connection client that
\* exists is handed to that client and to no other, and each client is
\* handed its frames in arrival order.
C29_RoutedInOrder ==
    /\ \A i \in 1..Len(inbound) : \A c \in 1..Len(conns) :
          LET isHanded == \E n \in 1..Len(conns[c].handed) : conns[c].handed[n] = i
          IN /\ (c \in inbound[i].live /\ Matches(inbound[i].frame, conns[c]))
                   => isHanded
             /\ isHanded =>
                   /\ Matches(inbound[i].frame, conns[c])
                   /\ \A d \in 1..Len(conns) :
                         (d # c) => \A n \in 1..Len(conns[d].handed) :
                                       conns[d].handed[n] # i
    /\ \A c \in 1..Len(conns) : \A m, n \in 1..Len(conns[c].handed) :
          m < n => conns[c].handed[m] < conns[c].handed[n]

\* C29 witness: two clients exist; one has been handed its 'C' frame and a
\* 'Y' frame after it, the other its own 'C' frame between the two.
C29_Witness ==
    /\ Len(conns) = 2
    /\ conns[1].handed = <<1, 3>>
    /\ inbound[3].frame.kind = "Y"
    /\ conns[2].handed = <<2>>
    /\ LiveClients = {1, 2}

\* The frames that arrived when no client that existed matched them.
Unmatched ==
    {i \in 1..Len(inbound) :
        ~\E c \in inbound[i].live : Matches(inbound[i].frame, conns[c])}

\* The clients that frame i was handed to.
HandedTo(i) ==
    {c \in 1..Len(conns) : \E n \in 1..Len(conns[c].handed) : conns[c].handed[n] = i}

\* C31: a Connection is made only by a 'C' frame whose key has no entry, and
\* by each such frame; any other frame for an unknown key makes nothing and
\* reaches no client; a 'C' frame for a key that has an entry goes to that
\* client, and neither makes a Connection nor emits 'connection'.
C31_CreatedByConnectOnly ==
    LET makers == {i \in Unmatched : inbound[i].frame.kind = "C"}
    IN /\ Len(conns) = Cardinality(makers)
       /\ connectionEvents = Cardinality(makers)
       /\ \A c \in 1..Len(conns) :
             /\ conns[c].handed # <<>>
             /\ conns[c].handed[1] \in makers
             /\ Matches(inbound[conns[c].handed[1]].frame, conns[c])
       /\ \A i \in Unmatched \ makers : HandedTo(i) = {}
       /\ \A i \in (1..Len(inbound)) \ Unmatched :
             inbound[i].frame.kind = "C" =>
                \E c \in inbound[i].live : HandedTo(i) = {c} /\ conns[c].handed[1] # i

\* C31 witness: a 'D' frame for an unknown key made nothing, a 'C' frame
\* made the one Connection, and a second 'C' frame went to it.
C31_Witness ==
    /\ Len(inbound) = 3
    /\ inbound[1].frame.kind = "D"
    /\ inbound[2].frame.kind = "C"
    /\ inbound[3].frame.kind = "C"
    /\ Len(conns) = 1
    /\ conns[1].handed = <<2, 3>>
    /\ connectionEvents = 1

\* The 'Y' replies to the queries of client c: those that arrived while
\* the router held c, on its port, from its local call to its remote call.
RepliesTo(c) ==
    {i \in 1..Len(inbound) :
        /\ inbound[i].frame.kind = "Y"
        /\ c \in inbound[i].live
        /\ inbound[i].frame.port = conns[c].port
        /\ inbound[i].frame.callFrom = conns[c].myCall
        /\ inbound[i].frame.callTo = conns[c].theirCall}

\* C32: a 'Y' reply whose callFrom is the local call and callTo the remote
\* call goes to the client of the 'C', 'D' and 'd' frames from the remote
\* call to the local call: inFlight of each ConnectionThrottle is the count
\* of the latest reply to its own query, and no other reply changes it.
C32_ReplyToItsThrottle ==
    \A c \in 1..Len(conns) :
       /\ \A i \in RepliesTo(c) : HandedTo(i) = {c}
       /\ \A i \in 1..Len(inbound) :
             (inbound[i].frame.kind = "Y" /\ c \in HandedTo(i)) => i \in RepliesTo(c)
       /\ conns[c].inFlight =
             IF RepliesTo(c) = {} THEN 0
             ELSE inbound[CHOOSE i \in RepliesTo(c) :
                             \A j \in RepliesTo(c) : j <= i].frame.count

\* C32 witness: W1AW and N0CALL are connected in both roles on port 0; the
\* reply to the query of the first connection set its inFlight, and left
\* that of the second alone.
C32_Witness ==
    /\ Len(conns) = 2
    /\ LiveClients = {1, 2}
    /\ conns[1].port = conns[2].port
    /\ conns[1].myCall = conns[2].theirCall
    /\ conns[1].theirCall = conns[2].myCall
    /\ RepliesTo(1) = {3}
    /\ conns[1].inFlight = 7
    /\ conns[2].inFlight = 0

\* C34: 'G' and 'X' replies are consumed by the PortRouter: a port has a
\* PortThrottle, and a 'y' query was written for it, only if a frame of
\* another kind has arrived for that port.
C34_RepliesMakeNoClient ==
    \A p \in portRouter \cup Elements(portQueries) :
       \E i \in 1..Len(inbound) :
          /\ inbound[i].frame.port = p
          /\ inbound[i].frame.kind \notin {"G", "X"}

\* C38: the router's entry of a client is removed only by that client's
\* close: a client that has emitted no 'close' is in the router, whatever
\* 'close' events the earlier client of its key emits.
C38_RemovedByOwnClose ==
    \A c \in 1..Len(conns) : conns[c].closes = 0 => c \in LiveClients

(***************************************************************************)
(* Claims about the FrameAssembler.                                        *)
(***************************************************************************)
RECURSIVE Concat(_)
Concat(seqs) == IF seqs = <<>> THEN <<>> ELSE Head(seqs) \o Concat(Tail(seqs))

\* C4: the payloads of the frames pushed, followed by the bytes still
\* buffered, are the bytes written, in order; after flush nothing is
\* buffered; no payload is empty and none is longer than maxDataLength.
C4_PayloadsAreInput ==
    /\ Concat(frames) \o (IF bufferCount > 0 THEN SubSeq(aBuffer, 1, bufferCount)
                           ELSE <<>>)
         = [i \in 1..aWritten |-> i]
    /\ aFlushed => bufferCount = 0
    /\ \A i \in 1..Len(frames) :
          Len(frames[i]) > 0 /\ Len(frames[i]) <= maxDataLength

\* C4 witness: after the last chunk and flush, at least seven bytes have
\* left in three frames or more.
C4_Witness ==
    /\ aFlushed
    /\ aChunks = MaxChunks
    /\ aWritten >= 7
    /\ Len(frames) >= 3
    /\ maxDataLength = MaxFrameLength

\* C37: while the FrameAssembler holds bytes its timer is armed; at most one
\* timeout is set at a time, the one this.timeout holds; fewer than
\* maxDataLength bytes are buffered between operations; when the timer fires,
\* every byte written so far has left in a frame and nothing stays buffered.
C37_CoalescingTimer ==
    /\ [](/\ bufferCount > 0 => timeout
          /\ aTimers = IF timeout THEN 1 ELSE 0
          /\ bufferCount < maxDataLength)
    /\ [][AssemblerTimeout =>
             /\ bufferCount' = 0
             /\ ~timeout'
             /\ Concat(frames') = [i \in 1..aWritten |-> i]]_vars

\* C37 witness: frames have left, the buffer lacks one byte to a frame and
\* the timer is armed.
C37_Witness ==
    /\ maxDataLength = MaxFrameLength
    /\ bufferCount = maxDataLength - 1
    /\ timeout
    /\ aTimers = 1
    /\ Len(frames) >= 2
    /\ aChunks >= 2

(***************************************************************************)
(* Claims about the Receiver.                                              *)
(***************************************************************************)
\* The byte after which the n-th frame of the stream ends.
RECURSIVE EndOf(_)
EndOf(n) == IF n = 0 THEN 0 ELSE EndOf(n - 1) + HeaderLength + sent[n]

\* The number of whole frames among the bytes delivered.
Whole == Cardinality({n \in 1..Len(sent) : EndOf(n) <= delivered})

\* C5 (as claimed): the frames emitted are exactly the whole frames among
\* the bytes delivered, in order and with their payloads, and the bytes
\* delivered after them are the retained header and payload bytes.
C5_EmitsWholeFrames ==
    /\ emitted = [n \in 1..Whole |-> FrameOf(n, sent[n])]
    /\ SubSeq(header, 1, headerLength) \o data
         = SubSeq(Stream, EndOf(Whole) + 1, delivered)

(***************************************************************************)
(* Claims about the Server.                                                *)
(***************************************************************************)
\* C9 (as claimed): after the socket has closed, eventually every client of
\* the PortRouter is destroyed and every Connection that was open has
\* emitted 'close'.
C9_SocketCloseCascades ==
    (socket = "closed") ~>
        /\ \A p \in Ports : portClients[p] # "open"
        /\ OpenConnections = {}

\* C10 (as claimed): an 'error' or 'timeout' of the socket is emitted on the
\* Server and on every Connection open at that moment.
C10_SocketEventFansOut ==
    \A pair \in owed :
        /\ pair[2] \in serverEvents
        /\ pair[2] \in connEvents[pair[1]]

=============================================================================
